---------------------------- MODULE Spec2Model ----------------------------
(***************************************************************************)
(* Book-review REST API (latracal-backend): the relational store behind    *)
(* the mysql2 connection pool, and the request handlers of the book,       *)
(* review and user controllers, one action per awaited database statement. *)
(*                                                                         *)
(* The store is modelled as InnoDB behaves for the DDL of createTables:    *)
(* every pool connection is either in autocommit mode or inside a          *)
(* transaction opened by a START TRANSACTION statement that ran on it; a   *)
(* transaction's writes stay pending on its connection until a COMMIT or   *)
(* ROLLBACK runs on that same connection.  pool.execute() runs a statement *)
(* on whichever pool connection is free, so every statement picks its      *)
(* connection nondeterministically.  Reads see the committed rows plus the *)
(* connection's own pending writes.  A write that needs a row another      *)
(* connection holds pending fails with a lock-wait timeout.                *)
(***************************************************************************)
EXTENDS Integers, FiniteSets, Sequences, TLC

\* ---------------------------------------------------------------- bounds
NumProcs == 2        \* requests in flight at once
NumConns == 2        \* pool connections in use (connectionLimit is 10)
NumUsers == 3        \* user ids 1..NumUsers
NumBooks == 2        \* book ids 1..NumBooks
MaxFaults == 1       \* injected statement failures per run
MaxReviewId == 3     \* cap of the reviews AUTO_INCREMENT counter
MaxCascadeRequests == 2   \* requests received per run of SpecCascade
MaxReviewRequests == 3    \* requests received per run of SpecReview
MaxOwnerRequests == 3     \* requests received per run of SpecOwner
MaxBookRequests == 2      \* requests received per run of SpecBooks
MaxBookId == 3       \* cap of the books AUTO_INCREMENT counter
MaxAdminRequests == 3     \* requests received per run of SpecAdmin
MaxAccountRequests == 3   \* requests received per run of SpecAccount
MaxCatalogRequests == 3   \* requests received per run of SpecCatalog
MaxListingRequests == 2   \* requests received per run of SpecListing
MaxSearchRequests == 2    \* requests received per run of SpecSearch

Procs == 1..NumProcs
Conns == 1..NumConns
UserIds == 1..NumUsers
BookIds == 1..NumBooks

\* A path parameter that is not numeric ('abc'); isNaN() is true of it only.
NonNumeric == 0 - 1

VARIABLES
    committed,       \* the committed rows: [users, books, reviews, wishlist]
    conn,            \* per pool connection: open transaction and pending writes
    wishlistExists,  \* whether the database holds a wishlist table
    txnPreparable,   \* whether the server takes START TRANSACTION as a
                     \* prepared statement (execute() sends nothing else)
    nextId,          \* AUTO_INCREMENT counters: [reviews, books, users]
    req,             \* per request slot: the request being handled
    pc,              \* per request slot: the handler's position
    loc,             \* per request slot: the handler's local variables
    res,             \* per request slot: the response sent (status 0: none yet)
    faults,          \* statement failures injected so far
    faultBudget,     \* statement failures the environment may inject
    started,         \* requests received so far
    server           \* the process: startup position, pool handle, exit status

vars == <<committed, conn, wishlistExists, txnPreparable, nextId, req, pc, loc, res, faults,
          faultBudget, started, server>>

\* ------------------------------------------------------------- the store
NoRows == [users |-> {}, books |-> {}, reviews |-> {}, wishlist |-> {}]
Tables == {"users", "books", "reviews", "wishlist"}

FreshConn == [inTxn |-> FALSE, del |-> NoRows, ins |-> NoRows, by |-> {}]

\* What a statement on connection c reads.
View(db, cn, c) ==
    [t \in Tables |-> (db[t] \ cn[c].del[t]) \cup cn[c].ins[t]]

\* Rows of table t that other connections hold pending (row locks).
OthersPending(cn, c, t) ==
    UNION {cn[d].del[t] \cup cn[d].ins[t] : d \in Conns \ {c}}

\* A write of process p on connection c: pending inside a transaction,
\* permanent at once in autocommit mode.
ApplyWrite(db, cn, c, p, delRows, insRows) ==
    IF cn[c].inTxn
    THEN [db |-> db,
          cn |-> [cn EXCEPT
                   ![c].del = [t \in Tables |-> @[t] \cup (delRows[t] \cap db[t])],
                   ![c].ins = [t \in Tables |-> (@[t] \ delRows[t]) \cup insRows[t]],
                   ![c].by = IF delRows = NoRows /\ insRows = NoRows
                             THEN @ ELSE @ \cup {p}]]
    ELSE [db |-> [t \in Tables |-> (db[t] \ delRows[t]) \cup insRows[t]],
          cn |-> cn]

\* COMMIT on connection c (also the implicit commit of START TRANSACTION).
CommitConn(db, cn, c) ==
    [db |-> [t \in Tables |-> (db[t] \ cn[c].del[t]) \cup cn[c].ins[t]],
     cn |-> [cn EXCEPT ![c] = FreshConn]]

\* ROLLBACK on connection c.
RollbackConn(db, cn, c) ==
    [db |-> db, cn |-> [cn EXCEPT ![c] = FreshConn]]

\* START TRANSACTION on connection c.
BeginConn(db, cn, c) ==
    LET done == CommitConn(db, cn, c)
    IN  [db |-> done.db, cn |-> [done.cn EXCEPT ![c].inTxn = TRUE]]


\* ------------------------------------------------------------ statements
\* The outcome of one db.execute(): the error code thrown ("OK": none), the
\* store afterwards and the rows returned.
Ok(w, rows) == [err |-> "OK", db |-> w.db, cn |-> w.cn, rows |-> rows]
Err(db, cn, code) == [err |-> code, db |-> db, cn |-> cn, rows |-> {}]
Same(db, cn) == [db |-> db, cn |-> cn]

\* START TRANSACTION / COMMIT / ROLLBACK sent through pool.execute().
\* execute() uses the prepared-statement protocol: MySQL refuses START
\* TRANSACTION there (ER_UNSUPPORTED_PS), MariaDB from 10.6 takes it.
SqlStartTransaction(db, cn, c, preparable) ==
    IF preparable THEN Ok(BeginConn(db, cn, c), {})
    ELSE Err(db, cn, "ER_UNSUPPORTED_PS")
SqlCommit(db, cn, c) == Ok(CommitConn(db, cn, c), {})
SqlRollback(db, cn, c) == Ok(RollbackConn(db, cn, c), {})

\* SELECT ... FROM books WHERE id = ?
SqlSelectBook(db, cn, c, id) ==
    Ok(Same(db, cn), {b \in View(db, cn, c).books : b.id = id})

\* SELECT ... FROM users WHERE id = ?
SqlSelectUser(db, cn, c, id) ==
    Ok(Same(db, cn), {u \in View(db, cn, c).users : u.id = id})

\* DELETE FROM reviews WHERE <col> = ?   (col: "book_id" or "user_id")
SqlDeleteReviewsBy(db, cn, c, p, col, id) ==
    IF \E r \in OthersPending(cn, c, "reviews") : r[col] = id
    THEN Err(db, cn, "ER_LOCK_WAIT_TIMEOUT")
    ELSE Ok(ApplyWrite(db, cn, c, p,
                [NoRows EXCEPT !.reviews = {r \in View(db, cn, c).reviews : r[col] = id}],
                NoRows), {})

\* DELETE FROM wishlist WHERE <col> = ?   createTables creates no wishlist
\* table: without one the statement fails with ER_NO_SUCH_TABLE.
SqlDeleteWishlistBy(db, cn, c, p, col, id, hasTable) ==
    IF ~hasTable THEN Err(db, cn, "ER_NO_SUCH_TABLE")
    ELSE IF \E w \in OthersPending(cn, c, "wishlist") : w[col] = id
    THEN Err(db, cn, "ER_LOCK_WAIT_TIMEOUT")
    ELSE Ok(ApplyWrite(db, cn, c, p,
                [NoRows EXCEPT !.wishlist = {w \in View(db, cn, c).wishlist : w[col] = id}],
                NoRows), {})

\* The child rows FOREIGN KEY ... ON DELETE CASCADE removes with a parent.
CascadeRows(v, col, id) ==
    [NoRows EXCEPT !.reviews = {r \in v.reviews : r[col] = id},
                   !.wishlist = {w \in v.wishlist : w[col] = id}]

\* DELETE FROM <parent> WHERE id = ?   (parent: "books" with child column
\* "book_id", or "users" with child column "user_id")
SqlDeleteParent(db, cn, c, p, parent, col, id) ==
    IF \/ \E x \in OthersPending(cn, c, parent) : x.id = id
       \/ \E r \in OthersPending(cn, c, "reviews") : r[col] = id
       \/ \E w \in OthersPending(cn, c, "wishlist") : w[col] = id
    THEN Err(db, cn, "ER_LOCK_WAIT_TIMEOUT")
    ELSE LET v == View(db, cn, c)
             gone == {x \in v[parent] : x.id = id}
         IN  Ok(ApplyWrite(db, cn, c, p,
                    IF gone = {} THEN NoRows
                    ELSE [CascadeRows(v, col, id) EXCEPT ![parent] = gone],
                    NoRows), gone)

\* SELECT id FROM reviews WHERE user_id = ? AND book_id = ?
SqlSelectReviewOf(db, cn, c, u, b) ==
    Ok(Same(db, cn), {r \in View(db, cn, c).reviews : r.user_id = u /\ r.book_id = b})

\* SELECT user_id FROM reviews WHERE id = ?   (a non-numeric id matches no row)
SqlSelectReview(db, cn, c, id) ==
    Ok(Same(db, cn), {r \in View(db, cn, c).reviews : r.id = id})

\* SELECT r.*, u.username FROM reviews r JOIN users u ON r.user_id = u.id
\* WHERE r.id = ?
SqlSelectReviewJoinUser(db, cn, c, id) ==
    LET v == View(db, cn, c)
    IN  Ok(Same(db, cn), {r \in v.reviews :
                             r.id = id /\ \E u \in v.users : u.id = r.user_id})

\* rating INT NOT NULL: the values the column may take for a bound parameter.
\* A number of h halves is stored as is when whole and rounded to a
\* neighbour otherwise; a non-numeric string is refused (strict SQL mode).
StoredRatings(rating) ==
    IF rating.kind # "num" THEN {}
    ELSE IF rating.h % 2 = 0 THEN {rating.h \div 2}
    ELSE {(rating.h - 1) \div 2, (rating.h + 1) \div 2}

\* CHECK (rating >= 1 AND rating <= 5)
RatingCheck(val) == val >= 1 /\ val <= 5

\* The reviews table without its unique key.
NoUniqueKey(rows, u, b) == TRUE

\* UNIQUE KEY unique_user_book (user_id, book_id)
UniqueUserBook(rows, u, b) == ~\E r \in rows : r.user_id = u /\ r.book_id = b

\* The reviews table without its foreign keys.
NoForeignKeys(v, u, b) == TRUE

\* FOREIGN KEY (user_id) REFERENCES users(id), (book_id) REFERENCES books(id)
ForeignKeysHold(v, u, b) ==
    /\ \E x \in v.users : x.id = u
    /\ \E x \in v.books : x.id = b

\* INSERT INTO reviews (user_id, book_id, rating, comment, ...) VALUES (...)
\* vals: StoredRatings of the bound rating, val: the one stored.
SqlInsertReview(db, cn, c, p, id, u, b, vals, val) ==
    LET v == View(db, cn, c)
    IN  IF vals = {} THEN Err(db, cn, "ER_TRUNCATED_WRONG_VALUE_FOR_FIELD")
        ELSE IF ~RatingCheck(val) THEN Err(db, cn, "ER_CHECK_CONSTRAINT_VIOLATED")
        ELSE IF \/ \E x \in OthersPending(cn, c, "users") : x.id = u
                \/ \E x \in OthersPending(cn, c, "books") : x.id = b
                \/ ~UniqueUserBook(OthersPending(cn, c, "reviews"), u, b)
             THEN Err(db, cn, "ER_LOCK_WAIT_TIMEOUT")
        ELSE IF ~ForeignKeysHold(v, u, b) THEN Err(db, cn, "ER_NO_REFERENCED_ROW_2")
        ELSE IF ~UniqueUserBook(v.reviews, u, b) THEN Err(db, cn, "ER_DUP_ENTRY")
        ELSE Ok(ApplyWrite(db, cn, c, p, NoRows,
                    [NoRows EXCEPT !.reviews =
                        {[id |-> id, user_id |-> u, book_id |-> b, rating |-> val]}]),
                {id})

\* UPDATE reviews SET rating = ?, comment = ?, updated_at = NOW() WHERE id = ?
SqlUpdateReview(db, cn, c, p, id, vals, val) ==
    LET old == {r \in View(db, cn, c).reviews : r.id = id}
    IN  IF \E r \in OthersPending(cn, c, "reviews") : r.id = id
        THEN Err(db, cn, "ER_LOCK_WAIT_TIMEOUT")
        ELSE IF old = {} THEN Ok(Same(db, cn), {})
        ELSE IF vals = {} THEN Err(db, cn, "ER_TRUNCATED_WRONG_VALUE_FOR_FIELD")
        ELSE IF ~RatingCheck(val) THEN Err(db, cn, "ER_CHECK_CONSTRAINT_VIOLATED")
        ELSE Ok(ApplyWrite(db, cn, c, p,
                    [NoRows EXCEPT !.reviews = old],
                    [NoRows EXCEPT !.reviews = {[r EXCEPT !.rating = val] : r \in old}]),
                old)

\* DELETE FROM reviews WHERE id = ?
SqlDeleteReview(db, cn, c, p, id) ==
    IF \E r \in OthersPending(cn, c, "reviews") : r.id = id
    THEN Err(db, cn, "ER_LOCK_WAIT_TIMEOUT")
    ELSE Ok(ApplyWrite(db, cn, c, p,
                [NoRows EXCEPT !.reviews = {r \in View(db, cn, c).reviews : r.id = id}],
                NoRows), {})

\* An isbn value: absent, or a string of digits (n names the digits, dashed
\* tells whether it is written with hyphens, pad whether blanks surround
\* it), or a string that is no ISBN.
NoIsbn == [kind |-> "none", n |-> 0, dashed |-> FALSE, pad |-> FALSE]
Isbn(n, dashed) == [kind |-> "digits", n |-> n, dashed |-> dashed, pad |-> FALSE]
BadIsbn == [kind |-> "bad", n |-> 0, dashed |-> FALSE, pad |-> FALSE]
PaddedIsbn(n, dashed) == [Isbn(n, dashed) EXCEPT !.pad = TRUE]

\* isbn.trim()
TrimIsbn(isbn) == [isbn EXCEPT !.pad = FALSE]

\* SELECT id FROM books WHERE isbn = ? AND id != ? AND isbn IS NOT NULL
\* (createBook's statement has no id clause: exceptId 0 is no book's id)
SqlSelectBookByIsbn(db, cn, c, isbn, exceptId) ==
    Ok(Same(db, cn), {b \in View(db, cn, c).books :
                         b.isbn = isbn /\ b.id # exceptId /\ b.isbn.kind # "none"})

\* isbn VARCHAR(20) UNIQUE: NULL may repeat.
UniqueIsbn(rows, isbn, exceptId) ==
    isbn.kind = "none" \/ ~\E b \in rows : b.id # exceptId /\ b.isbn = isbn

\* INSERT INTO books (title, author, ..., isbn, ...) VALUES (...)
SqlInsertBook(db, cn, c, p, id, title, isbn) ==
    IF ~UniqueIsbn(OthersPending(cn, c, "books"), isbn, 0)
    THEN Err(db, cn, "ER_LOCK_WAIT_TIMEOUT")
    ELSE IF ~UniqueIsbn(View(db, cn, c).books, isbn, 0)
    THEN Err(db, cn, "ER_DUP_ENTRY")
    ELSE Ok(ApplyWrite(db, cn, c, p, NoRows,
                [NoRows EXCEPT !.books =
                    {[id |-> id, title |-> title, isbn |-> isbn]}]), {id})

\* UPDATE books SET title = ?, ..., isbn = ?, ... WHERE id = ?
SqlUpdateBook(db, cn, c, p, id, title, isbn) ==
    LET v == View(db, cn, c)
        old == {b \in v.books : b.id = id}
    IN  IF \/ \E b \in OthersPending(cn, c, "books") : b.id = id
           \/ ~UniqueIsbn(OthersPending(cn, c, "books"), isbn, id)
        THEN Err(db, cn, "ER_LOCK_WAIT_TIMEOUT")
        ELSE IF old = {} THEN Ok(Same(db, cn), {})
        ELSE IF ~UniqueIsbn(v.books, isbn, id) THEN Err(db, cn, "ER_DUP_ENTRY")
        ELSE Ok(ApplyWrite(db, cn, c, p,
                    [NoRows EXCEPT !.books = old],
                    [NoRows EXCEPT !.books =
                        {[b EXCEPT !.title = title, !.isbn = isbn] : b \in old}]),
                old)

\* UPDATE users SET role = ?, updated_at = NOW() WHERE id = ?
\* rows: the rows matched (affectedRows counts them).
SqlUpdateUserRole(db, cn, c, p, id, role) ==
    LET old == {u \in View(db, cn, c).users : u.id = id}
    IN  IF \E u \in OthersPending(cn, c, "users") : u.id = id
        THEN Err(db, cn, "ER_LOCK_WAIT_TIMEOUT")
        ELSE Ok(ApplyWrite(db, cn, c, p,
                    [NoRows EXCEPT !.users = old],
                    [NoRows EXCEPT !.users = {[u EXCEPT !.role = role] : u \in old}]),
                old)

\* Strings of the users table. utf8mb4_unicode_ci compares with PAD SPACE:
\* a name and the same name followed by spaces are equal, in WHERE and in
\* the UNIQUE indexes.
SameName(a, b) == a.n = b.n

\* SELECT * FROM users WHERE email = ?
SqlSelectUserByEmail(db, cn, c, email) ==
    Ok(Same(db, cn), {u \in View(db, cn, c).users : SameName(u.email, email)})

\* SELECT id FROM users WHERE email = ? AND id != ?
SqlSelectDuplicateEmail(db, cn, c, email, id) ==
    Ok(Same(db, cn),
       {u \in View(db, cn, c).users : SameName(u.email, email) /\ u.id # id})

\* SELECT id FROM users WHERE username = ? AND id != ?
SqlSelectDuplicateUsername(db, cn, c, username, id) ==
    Ok(Same(db, cn),
       {u \in View(db, cn, c).users : SameName(u.username, username) /\ u.id # id})

\* username VARCHAR(255) NOT NULL UNIQUE, email VARCHAR(255) NOT NULL UNIQUE:
\* no row of rows other than exceptId holds the username or the email.
UniqueUser(rows, username, email, exceptId) ==
    \A u \in rows :
       u.id # exceptId =>
          ~SameName(u.username, username) /\ ~SameName(u.email, email)

\* INSERT INTO users (username, email, password, role) VALUES (?, ?, ?, ?)
SqlInsertUser(db, cn, c, p, id, username, email, role) ==
    IF ~UniqueUser(OthersPending(cn, c, "users"), username, email, 0)
    THEN Err(db, cn, "ER_LOCK_WAIT_TIMEOUT")
    ELSE IF ~UniqueUser(View(db, cn, c).users, username, email, 0)
    THEN Err(db, cn, "ER_DUP_ENTRY")
    ELSE Ok(ApplyWrite(db, cn, c, p, NoRows,
                [NoRows EXCEPT !.users =
                    {[id |-> id, role |-> role, username |-> username,
                      email |-> email]}]), {id})

\* UPDATE users SET username = ?, email = ?, updated_at = NOW() WHERE id = ?
SqlUpdateUser(db, cn, c, p, id, username, email) ==
    LET v == View(db, cn, c)
        old == {u \in v.users : u.id = id}
    IN  IF \/ \E u \in OthersPending(cn, c, "users") : u.id = id
           \/ ~UniqueUser(OthersPending(cn, c, "users"), username, email, id)
        THEN Err(db, cn, "ER_LOCK_WAIT_TIMEOUT")
        ELSE IF old = {} THEN Ok(Same(db, cn), {})
        ELSE IF ~UniqueUser(v.users, username, email, id)
        THEN Err(db, cn, "ER_DUP_ENTRY")
        ELSE Ok(ApplyWrite(db, cn, c, p,
                    [NoRows EXCEPT !.users = old],
                    [NoRows EXCEPT !.users =
                        {[u EXCEPT !.username = username, !.email = email] :
                            u \in old}]),
                old)

\* ------------------------------------------------------ request handling
NoRating == [kind |-> "none", h |-> 0]
NoResponse == [status |-> 0, error |-> ""]
Response(status, error) == [status |-> status, error |-> error]

NoSnap == NoRows
InitLoc == [err |-> "OK", isAdmin |-> FALSE, alone |-> TRUE, snap |-> NoSnap,
            owner |-> 0, insertId |-> 0, books |-> <<>>,
            total |-> 0, average |-> [null |-> TRUE, sum |-> 0, count |-> 1],
            lowest |-> 0, highest |-> 0, dist |-> <<>>, top |-> {},
            rollback |-> "none"]

\* A username or email value: the text numbered n (0: the empty text),
\* followed by blanks or not.
Name(n, pad) == [n |-> n, pad |-> pad]
NoName == Name(0, FALSE)

\* id is the number the :id path parameter denotes (what isNaN() and the
\* database see), lead the integer its leading digits spell (what parseInt()
\* returns): '12' denotes 12 and leads with 12, '0.1e1' denotes 1 and leads
\* with 0, '1e1' denotes 10 and leads with 1.
IdleReq == [op |-> "none", auth |-> "none", caller |-> 0, id |-> 0, lead |-> 0,
            book_id |-> 0, rating |-> NoRating,
            title |-> "", author |-> "", isbn |-> NoIsbn,
            role |-> "", username |-> NoName, email |-> NoName,
            userType |-> "", published_date |-> "none", cover_image |-> "none",
            page |-> [kind |-> "none", v |-> 0], limit |-> [kind |-> "none", v |-> 0],
            sortBy |-> "", sortOrder |-> "", genre |-> "", q |-> "",
            minRating |-> [kind |-> "none", v |-> 0],
            maxRating |-> [kind |-> "none", v |-> 0]]

\* The rows a request for (op, id) is about: the parent of a cascading
\* delete with its children, the review of updateReview and deleteReview.
Related(db, op, id) ==
    IF op = "deleteBook"
    THEN [NoRows EXCEPT !.books = {b \in db.books : b.id = id},
                        !.reviews = {r \in db.reviews : r.book_id = id},
                        !.wishlist = {w \in db.wishlist : w.book_id = id}]
    ELSE IF op = "deleteUser"
    THEN [NoRows EXCEPT !.users = {u \in db.users : u.id = id},
                        !.reviews = {r \in db.reviews : r.user_id = id},
                        !.wishlist = {w \in db.wishlist : w.user_id = id}]
    ELSE IF op \in {"updateReview", "deleteReview"}
    THEN [NoRows EXCEPT !.reviews = {r \in db.reviews : r.id = id}]
    ELSE IF op \in {"createBook", "updateBook", "getBooks", "getBooksByAuthor",
                     "searchBooks"}
    THEN [NoRows EXCEPT !.books = db.books]
    ELSE IF op = "updateUserRole"
    THEN [NoRows EXCEPT !.users = {u \in db.users : u.id = id}]
    ELSE IF op \in {"register", "demoLogin", "updateUser", "updateUserProfile"}
    THEN [NoRows EXCEPT !.users = db.users]
    ELSE NoRows

\* Whether the environment may fail the next statement.
FaultChoices == IF faults < faultBudget THEN {FALSE, TRUE} ELSE {FALSE}

\* The outcome of a statement the environment may fail (connection lost,
\* server gone away): the error is thrown and the store is untouched.
Run(f, r) == IF f THEN Err(committed, conn, "FAULT") ELSE r

\* The store and the fault count after process p's statement with outcome r
\* on connection c; every other request learns whether the store changed
\* under it.
Effect(p, c, f, r, myLoc) ==
    /\ committed' = r.db
    /\ conn' = r.cn
    /\ faults' = IF f THEN faults + 1 ELSE faults
    /\ loc' = [q \in Procs |->
                IF q = p THEN myLoc
                ELSE IF pc[q] # "idle" /\ (r.db # committed \/ r.cn # conn)
                     THEN [loc[q] EXCEPT !.alone = FALSE]
                     ELSE loc[q]]
    /\ UNCHANGED <<wishlistExists, txnPreparable, faultBudget, started, server>>

Goto(p, label) == pc' = [pc EXCEPT ![p] = label]
Reply(p, status, error) ==
    /\ res' = [res EXCEPT ![p] = Response(status, error)]
    /\ pc' = [pc EXCEPT ![p] = "done"]

\* ------------------------------------------------------------ middleware
\* Routes behind authenticateToken, and those behind requireAdmin too.
Protected(op) == op \in {"createReview", "updateReview", "deleteReview",
                         "createBook", "updateBook", "deleteBook", "deleteUser",
                         "updateUserRole", "updateUser", "updateUserProfile",
                         "getReviewStats", "getUserById"}
AdminOnly(op) == op \in {"createBook", "updateBook", "deleteBook", "deleteUser",
                         "updateUserRole", "getReviewStats"}

\* The handler's synchronous code up to its first awaited statement: the
\* label of that statement, or the response of an early return.
At(label) == [pc |-> label, res |-> NoResponse]
Early(status, error) == [pc |-> "done", res |-> Response(status, error)]

IsNaN(id) == id = NonNumeric

\* parseInt(req.params.id)
ParseInt(r) == r.lead

\* JavaScript's !rating, rating < 1 and rating > 5 on the body's value: a
\* missing value or 0 is falsy; a non-numeric string compares as NaN, so
\* both comparisons are false.
Num(h) == [kind |-> "num", h |-> h]
NotNumber == [kind |-> "str", h |-> 0]
Falsy(rating) == rating.kind = "none" \/ (rating.kind = "num" /\ rating.h = 0)
LessThan1(rating) == rating.kind = "num" /\ rating.h < 2
GreaterThan5(rating) == rating.kind = "num" /\ rating.h > 10

\* title.trim() / author.trim() on the strings the requests carry: "" is a
\* missing or empty field, " " a blank one.
Trim(str) == IF str = " " THEN "" ELSE str

\* !username / !email: only the missing or empty string is falsy; a string
\* of spaces is not. username.trim() drops the blanks after the text.
NoString(name) == name.n = 0 /\ ~name.pad
TrimName(name) == Name(name.n, FALSE)

\* demoUsers: the e-mail address and username of the two demo accounts.
DemoTypes == {"admin", "user"}
DemoUser(userType) ==
    IF userType = "admin"
    THEN [email |-> Name(20, FALSE), username |-> Name(20, FALSE), role |-> "admin"]
    ELSE [email |-> Name(21, FALSE), username |-> Name(21, FALSE), role |-> "user"]

\* The account updateUser and updateUserProfile write to: the path's id,
\* or the caller's own.
EditedUser(r) == IF r.op = "updateUserProfile" THEN r.caller ELSE r.id

\* /^(?:\d{10}|\d{13})$/ on the isbn with hyphens and spaces removed
IsbnFormatOk(isbn) == isbn.kind = "digits"

\* published_date: a past date ("valid"), a string new Date() cannot read
\* ("unparsable") or a date after now ("future"). cover_image: the URL of an
\* image file ("image"), a URL without an image extension ("page") or a text
\* new URL() rejects ("text"). "none" is a field left out.
PublishedDateOk(d) == d \in {"none", "valid"}

\* createBook and updateBook: the checks of published_date and cover_image,
\* then the statement at label.
BookFieldsCheck(r, label) ==
    IF ~PublishedDateOk(r.published_date)
    THEN Early(400, "Invalid published date or date cannot be in the future")
    ELSE IF r.cover_image = "text" THEN Early(400, "Invalid cover image URL")
    ELSE IF r.cover_image = "page"
    THEN Early(400, "Cover image must be a valid image URL (jpg, png, gif, webp, svg)")
    ELSE At(label)

\* The handler goes on as e says: to a statement or to its response.
Continue(p, e) ==
    /\ pc' = [pc EXCEPT ![p] = e.pc]
    /\ res' = [res EXCEPT ![p] = e.res]

HandlerEntry(r) ==
    CASE r.op = "deleteBook" ->
           IF IsNaN(r.id) THEN Early(400, "Invalid book ID") ELSE At("cd_select")
      [] r.op = "deleteUser" ->
           IF IsNaN(r.id) THEN Early(400, "Invalid user ID")
           ELSE IF ParseInt(r) = r.caller
           THEN Early(400, "Cannot delete your own account")
           ELSE At("cd_select")
      [] r.op = "getBookById" ->
           IF IsNaN(r.id) THEN Early(400, "Invalid book ID") ELSE At("gb_select")
      [] r.op = "createReview" ->
           IF r.book_id = 0 \/ Falsy(r.rating)
           THEN Early(400, "Book ID and rating are required")
           ELSE IF LessThan1(r.rating) \/ GreaterThan5(r.rating)
           THEN Early(400, "Rating must be between 1 and 5")
           ELSE At("cr_selectBook")
      [] r.op = "updateReview" ->
           IF Falsy(r.rating) THEN Early(400, "Rating is required")
           ELSE IF LessThan1(r.rating) \/ GreaterThan5(r.rating)
           THEN Early(400, "Rating must be between 1 and 5")
           ELSE At("ur_select")
      [] r.op = "deleteReview" -> At("dr_select")
      [] r.op = "getBookReviewSummary" ->
           IF IsNaN(r.id) THEN Early(400, "Invalid book ID") ELSE At("rs_book")
      [] r.op = "getReviewStats" -> At("st_total")
      [] r.op = "getRelatedBooks" ->
           IF IsNaN(r.id) THEN Early(400, "Invalid book ID") ELSE At("rb_select")
      [] r.op = "getUserById" ->
           IF IsNaN(r.id) THEN Early(400, "Invalid user ID") ELSE At("gu_select")
      [] r.op = "createBook" ->
           IF r.title = "" \/ r.author = ""
           THEN Early(400, "Title and author are required")
           ELSE IF Trim(r.title) = "" \/ Trim(r.author) = ""
           THEN Early(400, "Title and author cannot be empty")
           ELSE IF r.isbn.kind = "none" THEN BookFieldsCheck(r, "cb_insert")
           ELSE IF ~IsbnFormatOk(r.isbn)
           THEN Early(400, "Invalid ISBN format. Must be 10 or 13 digits.")
           ELSE At("cb_selectIsbn")
      [] r.op = "updateUserRole" ->
           IF r.role \notin {"user", "admin"} THEN Early(400, "Invalid role")
           ELSE IF IsNaN(r.id) THEN Early(400, "Invalid user ID")
           ELSE IF ParseInt(r) = r.caller
           THEN Early(400, "Cannot change your own role")
           ELSE At("role_update")
      [] r.op = "getBooks" -> At("lb_page")
      [] r.op = "getBooksByAuthor" ->
           IF r.author = "" \/ Trim(r.author) = ""
           THEN Early(400, "Author name is required")
           ELSE At("la_page")
      [] r.op = "searchBooks" ->
           IF r.q = "" /\ r.genre = "" /\ r.author = ""
           THEN Early(400, "At least one search parameter is required")
           ELSE At("sb_page")
      [] r.op = "register" ->
           IF NoString(r.username) \/ NoString(r.email)
           THEN Early(400, "All fields are required")
           ELSE At("rg_insert")
      [] r.op = "demoLogin" ->
           IF r.userType \notin DemoTypes THEN Early(400, "Invalid demo user type")
           ELSE At("dl_select")
      [] r.op = "updateUser" ->
           IF IsNaN(r.id) THEN Early(400, "Invalid user ID")
           ELSE IF NoString(r.username) \/ NoString(r.email)
           THEN Early(400, "Username and email are required")
           ELSE At("uu_role")
      [] r.op = "updateUserProfile" ->
           IF NoString(r.username) \/ NoString(r.email)
           THEN Early(400, "Username and email are required")
           ELSE At("uu_dupEmail")
      [] r.op = "updateBook" ->
           IF IsNaN(r.id) THEN Early(400, "Invalid book ID")
           ELSE IF r.title = "" \/ r.author = ""
           THEN Early(400, "Title and author are required")
           ELSE At("ub_select")
      [] OTHER -> Early(404, "Route not found")

\* authenticateToken: no token, a token that fails jwt.verify, or next().
AuthenticateToken(r) ==
    IF ~Protected(r.op) THEN HandlerEntry(r)
    ELSE IF r.auth = "none" THEN Early(401, "Access token required")
    ELSE IF r.auth = "invalid" THEN Early(403, "Invalid token")
    ELSE IF AdminOnly(r.op) THEN At("requireAdmin")
    ELSE HandlerEntry(r)

\* A request arrives in a free slot and runs up to its first await.
Start(p, requests, cap) ==
    /\ pc[p] \in {"idle", "done"}
    /\ started < cap
    /\ started' = started + 1
    /\ \E r \in requests :
         LET e == AuthenticateToken(r)
         IN  /\ req' = [req EXCEPT ![p] = r]
             /\ pc' = [pc EXCEPT ![p] = e.pc]
             /\ res' = [res EXCEPT ![p] = e.res]
             /\ loc' = [loc EXCEPT ![p] =
                          [InitLoc EXCEPT !.snap = Related(committed, r.op, r.id)]]
    /\ UNCHANGED <<committed, conn, wishlistExists, txnPreparable, nextId, faults,
                   faultBudget, server>>

\* A role test every existing account passes.
AnyAccountPasses(users) == users # {}

\* requireAdmin: SELECT role FROM users WHERE id = req.user.userId
RequireAdminPasses(users) == users # {} /\ \A u \in users : u.role = "admin"

RequireAdmin(p) ==
    /\ pc[p] = "requireAdmin"
    /\ \E c \in Conns, f \in FaultChoices :
         LET r == Run(f, SqlSelectUser(committed, conn, c, req[p].caller))
             e == HandlerEntry(req[p])
             pass == r.err = "OK" /\ RequireAdminPasses(r.rows)
         IN  /\ Effect(p, c, f, r, [loc[p] EXCEPT !.isAdmin = pass, !.err = r.err])
             /\ IF r.err # "OK" THEN Reply(p, 500, "Server error")
                ELSE IF r.rows = {} THEN Reply(p, 404, "User not found")
                ELSE IF ~pass THEN Reply(p, 403, "Admin access required")
                ELSE /\ pc' = [pc EXCEPT ![p] = e.pc]
                     /\ res' = [res EXCEPT ![p] = e.res]
    /\ UNCHANGED <<nextId, req>>

\* ------------------------------------------- deleteBook and deleteUser
CascadeOp(op) == op \in {"deleteBook", "deleteUser"}
ParentTable(op) == IF op = "deleteBook" THEN "books" ELSE "users"
ChildColumn(op) == IF op = "deleteBook" THEN "book_id" ELSE "user_id"
NotFoundError(op) == IF op = "deleteBook" THEN "Book not found" ELSE "User not found"

\* SELECT id, ... FROM <parent> WHERE id = ?
CascadeSelect(p) ==
    /\ pc[p] = "cd_select"
    /\ \E c \in Conns, f \in FaultChoices :
         LET r == Run(f, IF req[p].op = "deleteBook"
                         THEN SqlSelectBook(committed, conn, c, req[p].id)
                         ELSE SqlSelectUser(committed, conn, c, req[p].id))
         IN  /\ Effect(p, c, f, r, [loc[p] EXCEPT !.err = r.err])
             /\ IF r.err # "OK" THEN Reply(p, 500, "Server error")
                ELSE IF r.rows = {} THEN Reply(p, 404, NotFoundError(req[p].op))
                ELSE Goto(p, "cd_begin") /\ UNCHANGED res
    /\ UNCHANGED <<nextId, req>>

\* await db.execute('START TRANSACTION'): outside the inner try, a failure
\* goes to the outer catch.
CascadeBegin(p) ==
    /\ pc[p] = "cd_begin"
    /\ \E c \in Conns, f \in FaultChoices :
         LET r == Run(f, SqlStartTransaction(committed, conn, c, txnPreparable))
         IN  /\ Effect(p, c, f, r, [loc[p] EXCEPT !.err = r.err])
             /\ IF r.err # "OK" THEN Reply(p, 500, "Server error")
                ELSE Goto(p, "cd_delReviews") /\ UNCHANGED res
    /\ UNCHANGED <<nextId, req>>

\* A statement of the inner try: on failure the inner catch runs ROLLBACK.
CascadeTry(p, label, next, r, c, f) ==
    /\ pc[p] = label
    /\ Effect(p, c, f, r, [loc[p] EXCEPT !.err = r.err])
    /\ Goto(p, IF r.err = "OK" THEN next ELSE "cd_rollback")
    /\ UNCHANGED <<nextId, req, res>>

CascadeDelReviews(p) ==
    \E c \in Conns, f \in FaultChoices :
       CascadeTry(p, "cd_delReviews", "cd_delWishlist",
           Run(f, SqlDeleteReviewsBy(committed, conn, c, p,
                      ChildColumn(req[p].op), req[p].id)), c, f)

CascadeDelWishlist(p) ==
    \E c \in Conns, f \in FaultChoices :
       CascadeTry(p, "cd_delWishlist", "cd_delParent",
           Run(f, SqlDeleteWishlistBy(committed, conn, c, p,
                      ChildColumn(req[p].op), req[p].id, wishlistExists)), c, f)

CascadeDelParent(p) ==
    \E c \in Conns, f \in FaultChoices :
       CascadeTry(p, "cd_delParent", "cd_commit",
           Run(f, SqlDeleteParent(committed, conn, c, p, ParentTable(req[p].op),
                      ChildColumn(req[p].op), req[p].id)), c, f)

\* await db.execute('COMMIT'); res.json(...)
CascadeCommit(p) ==
    /\ pc[p] = "cd_commit"
    /\ \E c \in Conns, f \in FaultChoices :
         LET r == Run(f, SqlCommit(committed, conn, c))
         IN  /\ Effect(p, c, f, r, [loc[p] EXCEPT !.err = r.err])
             /\ IF r.err = "OK" THEN Reply(p, 200, "")
                ELSE Goto(p, "cd_rollback") /\ UNCHANGED res
    /\ UNCHANGED <<nextId, req>>

\* A handler whose outer catch is missing: an error thrown by ROLLBACK
\* leaves the handler and no response is sent.
CascadeRollbackUncaught(p) ==
    /\ pc[p] = "cd_rollback"
    /\ \E c \in Conns, f \in FaultChoices :
         LET r == Run(f, SqlRollback(committed, conn, c))
         IN  /\ Effect(p, c, f, r,
                       [loc[p] EXCEPT !.err = IF r.err = "OK" THEN @ ELSE r.err,
                                      !.rollback = IF r.err = "OK" THEN "done"
                                                   ELSE "failed"])
             /\ IF r.err = "OK" THEN Reply(p, 500, "Server error")
                ELSE pc' = [pc EXCEPT ![p] = "done"] /\ UNCHANGED res
    /\ UNCHANGED <<nextId, req>>

\* catch (error) { await db.execute('ROLLBACK'); throw error; } and the outer
\* catch: whether or not ROLLBACK itself throws, the answer is 500.
CascadeRollback(p) ==
    /\ pc[p] = "cd_rollback"
    /\ \E c \in Conns, f \in FaultChoices :
         LET r == Run(f, SqlRollback(committed, conn, c))
         IN  /\ Effect(p, c, f, r,
                       [loc[p] EXCEPT !.err = IF r.err = "OK" THEN @ ELSE r.err,
                                      !.rollback = IF r.err = "OK" THEN "done"
                                                   ELSE "failed"])
             /\ Reply(p, 500, "Server error")
    /\ UNCHANGED <<nextId, req>>

\* ---------------------------------------------------------- getBookById
GetBookById(p) ==
    /\ pc[p] = "gb_select"
    /\ \E c \in Conns, f \in FaultChoices :
         LET r == Run(f, SqlSelectBook(committed, conn, c, req[p].id))
         IN  /\ Effect(p, c, f, r, [loc[p] EXCEPT !.err = r.err])
             /\ IF r.err # "OK" THEN Reply(p, 500, "Server error")
                ELSE IF r.rows = {} THEN Reply(p, 404, "Book not found")
                ELSE Reply(p, 200, "")
    /\ UNCHANGED <<nextId, req>>

\* --------------------------------------------------------- createReview
\* SELECT id FROM books WHERE id = ?
CreateReview_SelectBook(p) ==
    /\ pc[p] = "cr_selectBook"
    /\ \E c \in Conns, f \in FaultChoices :
         LET r == Run(f, SqlSelectBook(committed, conn, c, req[p].book_id))
         IN  /\ Effect(p, c, f, r, [loc[p] EXCEPT !.err = r.err])
             /\ IF r.err # "OK" THEN Reply(p, 500, "Server error")
                ELSE IF r.rows = {} THEN Reply(p, 404, "Book not found")
                ELSE Goto(p, "cr_selectExisting") /\ UNCHANGED res
    /\ UNCHANGED <<nextId, req>>

\* SELECT id FROM reviews WHERE user_id = ? AND book_id = ?
CreateReview_SelectExisting(p) ==
    /\ pc[p] = "cr_selectExisting"
    /\ \E c \in Conns, f \in FaultChoices :
         LET r == Run(f, SqlSelectReviewOf(committed, conn, c,
                             req[p].caller, req[p].book_id))
         IN  /\ Effect(p, c, f, r, [loc[p] EXCEPT !.err = r.err])
             /\ IF r.err # "OK" THEN Reply(p, 500, "Server error")
                ELSE IF r.rows # {}
                THEN Reply(p, 400, "You have already reviewed this book")
                ELSE Goto(p, "cr_insert") /\ UNCHANGED res
    /\ UNCHANGED <<nextId, req>>

\* INSERT INTO reviews ...; the catch answers every error with 500.
CreateReview_Insert(p) ==
    /\ pc[p] = "cr_insert"
    /\ \E c \in Conns, f \in FaultChoices :
         LET vals == StoredRatings(req[p].rating)
         IN  \E val \in IF vals = {} THEN {0} ELSE vals :
               LET r == Run(f, SqlInsertReview(committed, conn, c, p, nextId.reviews,
                                   req[p].caller, req[p].book_id, vals, val))
               IN  /\ Effect(p, c, f, r,
                             [loc[p] EXCEPT !.err = r.err,
                                  !.insertId = IF r.err = "OK" THEN nextId.reviews ELSE 0])
                   /\ nextId' = IF r.err = "OK"
                                THEN [nextId EXCEPT !.reviews = @ + 1] ELSE nextId
                   /\ IF r.err # "OK" THEN Reply(p, 500, "Server error")
                      ELSE Goto(p, "cr_fetch") /\ UNCHANGED res
    /\ UNCHANGED req

\* SELECT r.*, u.username ... WHERE r.id = insertId; newReview[0].created_at
\* throws a TypeError when no row comes back.
CreateReview_Fetch(p) ==
    /\ pc[p] = "cr_fetch"
    /\ \E c \in Conns, f \in FaultChoices :
         LET r == Run(f, SqlSelectReviewJoinUser(committed, conn, c, loc[p].insertId))
         IN  /\ Effect(p, c, f, r,
                       [loc[p] EXCEPT !.err = IF r.err = "OK" /\ r.rows = {}
                                              THEN "TypeError" ELSE r.err])
             /\ IF r.err # "OK" \/ r.rows = {} THEN Reply(p, 500, "Server error")
                ELSE Reply(p, 201, "")
    /\ UNCHANGED <<nextId, req>>

\* --------------------------------------------------------- updateReview
\* existingReview[0].user_id !== req.user.userId is false
IsOwner(owner, caller) == owner = caller

\* SELECT user_id FROM reviews WHERE id = ?, then the ownership test.
UpdateReview_Select(p) ==
    /\ pc[p] = "ur_select"
    /\ \E c \in Conns, f \in FaultChoices :
         LET r == Run(f, SqlSelectReview(committed, conn, c, req[p].id))
             owner == IF r.rows = {} THEN 0 ELSE (CHOOSE x \in r.rows : TRUE).user_id
         IN  /\ Effect(p, c, f, r, [loc[p] EXCEPT !.err = r.err, !.owner = owner])
             /\ IF r.err # "OK" THEN Reply(p, 500, "Server error")
                ELSE IF r.rows = {} THEN Reply(p, 404, "Review not found")
                ELSE IF ~IsOwner(owner, req[p].caller)
                THEN Reply(p, 403, "You can only edit your own reviews")
                ELSE Goto(p, "ur_update") /\ UNCHANGED res
    /\ UNCHANGED <<nextId, req>>

\* UPDATE reviews SET rating = ?, ... WHERE id = ?
UpdateReview_Update(p) ==
    /\ pc[p] = "ur_update"
    /\ \E c \in Conns, f \in FaultChoices :
         LET vals == StoredRatings(req[p].rating)
         IN  \E val \in IF vals = {} THEN {0} ELSE vals :
               LET r == Run(f, SqlUpdateReview(committed, conn, c, p, req[p].id, vals, val))
               IN  /\ Effect(p, c, f, r, [loc[p] EXCEPT !.err = r.err])
                   /\ IF r.err # "OK" THEN Reply(p, 500, "Server error")
                      ELSE Goto(p, "ur_fetch") /\ UNCHANGED res
    /\ UNCHANGED <<nextId, req>>

\* SELECT r.*, u.username ... WHERE r.id = ?; updatedReview[0].created_at
\* throws a TypeError when the review is gone.
UpdateReview_Fetch(p) ==
    /\ pc[p] = "ur_fetch"
    /\ \E c \in Conns, f \in FaultChoices :
         LET r == Run(f, SqlSelectReviewJoinUser(committed, conn, c, req[p].id))
         IN  /\ Effect(p, c, f, r,
                       [loc[p] EXCEPT !.err = IF r.err = "OK" /\ r.rows = {}
                                              THEN "TypeError" ELSE r.err])
             /\ IF r.err # "OK" \/ r.rows = {} THEN Reply(p, 500, "Server error")
                ELSE Reply(p, 200, "")
    /\ UNCHANGED <<nextId, req>>

\* --------------------------------------------------------- deleteReview
\* SELECT user_id FROM reviews WHERE id = ?
DeleteReview_Select(p) ==
    /\ pc[p] = "dr_select"
    /\ \E c \in Conns, f \in FaultChoices :
         LET r == Run(f, SqlSelectReview(committed, conn, c, req[p].id))
             owner == IF r.rows = {} THEN 0 ELSE (CHOOSE x \in r.rows : TRUE).user_id
         IN  /\ Effect(p, c, f, r, [loc[p] EXCEPT !.err = r.err, !.owner = owner])
             /\ IF r.err # "OK" THEN Reply(p, 500, "Server error")
                ELSE IF r.rows = {} THEN Reply(p, 404, "Review not found")
                ELSE Goto(p, "dr_role") /\ UNCHANGED res
    /\ UNCHANGED <<nextId, req>>

\* isAdmin = user[0]?.role === 'admin'; isOwner = user_id === req.user.userId
MayDeleteReview(users, owner, caller) ==
    \/ owner = caller
    \/ users # {} /\ \A u \in users : u.role = "admin"

\* SELECT role FROM users WHERE id = req.user.userId, then the permission test.
DeleteReview_Role(p) ==
    /\ pc[p] = "dr_role"
    /\ \E c \in Conns, f \in FaultChoices :
         LET r == Run(f, SqlSelectUser(committed, conn, c, req[p].caller))
             may == r.err = "OK" /\ MayDeleteReview(r.rows, loc[p].owner, req[p].caller)
         IN  /\ Effect(p, c, f, r, [loc[p] EXCEPT !.err = r.err,
                        !.isAdmin = r.err = "OK" /\ RequireAdminPasses(r.rows)])
             /\ IF r.err # "OK" THEN Reply(p, 500, "Server error")
                ELSE IF ~may THEN Reply(p, 403, "You can only delete your own reviews")
                ELSE Goto(p, "dr_delete") /\ UNCHANGED res
    /\ UNCHANGED <<nextId, req>>

\* DELETE FROM reviews WHERE id = ?
DeleteReview_Delete(p) ==
    /\ pc[p] = "dr_delete"
    /\ \E c \in Conns, f \in FaultChoices :
         LET r == Run(f, SqlDeleteReview(committed, conn, c, p, req[p].id))
         IN  /\ Effect(p, c, f, r, [loc[p] EXCEPT !.err = r.err])
             /\ IF r.err # "OK" THEN Reply(p, 500, "Server error")
                ELSE Reply(p, 200, "")
    /\ UNCHANGED <<nextId, req>>

\* ----------------------------------------------------------- createBook
\* SELECT id FROM books WHERE isbn = ? AND isbn IS NOT NULL, then the
\* checks of the date and the cover image.
CreateBook_SelectIsbn(p) ==
    /\ pc[p] = "cb_selectIsbn"
    /\ \E c \in Conns, f \in FaultChoices :
         LET r == Run(f, SqlSelectBookByIsbn(committed, conn, c,
                             TrimIsbn(req[p].isbn), 0))
         IN  /\ Effect(p, c, f, r, [loc[p] EXCEPT !.err = r.err])
             /\ IF r.err # "OK" THEN Reply(p, 500, "Server error")
                ELSE IF r.rows # {}
                THEN Reply(p, 400, "A book with this ISBN already exists")
                ELSE Continue(p, BookFieldsCheck(req[p], "cb_insert"))
    /\ UNCHANGED <<nextId, req>>

\* What the catch of createBook and updateBook answers to a thrown error.
BookCatch(p, err) ==
    IF err = "ER_DUP_ENTRY"
    THEN Reply(p, 400, "A book with this information already exists")
    ELSE Reply(p, 500, "Server error")

\* INSERT INTO books ...
CreateBook_Insert(p) ==
    /\ pc[p] = "cb_insert"
    /\ \E c \in Conns, f \in FaultChoices :
         LET r == Run(f, SqlInsertBook(committed, conn, c, p, nextId.books,
                             Trim(req[p].title), TrimIsbn(req[p].isbn)))
         IN  /\ Effect(p, c, f, r,
                       [loc[p] EXCEPT !.err = r.err,
                            !.insertId = IF r.err = "OK" THEN nextId.books ELSE 0])
             /\ nextId' = IF r.err = "OK"
                          THEN [nextId EXCEPT !.books = @ + 1] ELSE nextId
             /\ IF r.err # "OK" THEN BookCatch(p, r.err)
                ELSE Goto(p, "cb_fetch") /\ UNCHANGED res
    /\ UNCHANGED req

\* SELECT b.*, ... FROM books b LEFT JOIN reviews r ... WHERE b.id = insertId;
\* newBook[0].published_date throws a TypeError when no row comes back.
CreateBook_Fetch(p) ==
    /\ pc[p] = "cb_fetch"
    /\ \E c \in Conns, f \in FaultChoices :
         LET r == Run(f, SqlSelectBook(committed, conn, c, loc[p].insertId))
         IN  /\ Effect(p, c, f, r,
                       [loc[p] EXCEPT !.err = IF r.err = "OK" /\ r.rows = {}
                                              THEN "TypeError" ELSE r.err])
             /\ IF r.err # "OK" \/ r.rows = {} THEN Reply(p, 500, "Server error")
                ELSE Reply(p, 201, "")
    /\ UNCHANGED <<nextId, req>>

\* ----------------------------------------------------------- updateBook
\* SELECT id, isbn FROM books WHERE id = ?, then the checks up to the next
\* statement.
UpdateBook_Select(p) ==
    /\ pc[p] = "ub_select"
    /\ \E c \in Conns, f \in FaultChoices :
         LET r == Run(f, SqlSelectBook(committed, conn, c, req[p].id))
             current == IF r.rows = {} THEN NoIsbn ELSE (CHOOSE b \in r.rows : TRUE).isbn
         IN  /\ Effect(p, c, f, r, [loc[p] EXCEPT !.err = r.err])
             /\ IF r.err # "OK" THEN Reply(p, 500, "Server error")
                ELSE IF r.rows = {} THEN Reply(p, 404, "Book not found")
                ELSE IF Trim(req[p].title) = "" \/ Trim(req[p].author) = ""
                THEN Reply(p, 400, "Title and author cannot be empty")
                ELSE IF req[p].isbn.kind = "none" \/ TrimIsbn(req[p].isbn) = current
                THEN Continue(p, BookFieldsCheck(req[p], "ub_update"))
                ELSE IF ~IsbnFormatOk(req[p].isbn)
                THEN Reply(p, 400, "Invalid ISBN format. Must be 10 or 13 digits.")
                ELSE Goto(p, "ub_selectIsbn") /\ UNCHANGED res
    /\ UNCHANGED <<nextId, req>>

\* SELECT id FROM books WHERE isbn = ? AND id != ? AND isbn IS NOT NULL
UpdateBook_SelectIsbn(p) ==
    /\ pc[p] = "ub_selectIsbn"
    /\ \E c \in Conns, f \in FaultChoices :
         LET r == Run(f, SqlSelectBookByIsbn(committed, conn, c,
                             TrimIsbn(req[p].isbn), req[p].id))
         IN  /\ Effect(p, c, f, r, [loc[p] EXCEPT !.err = r.err])
             /\ IF r.err # "OK" THEN Reply(p, 500, "Server error")
                ELSE IF r.rows # {}
                THEN Reply(p, 400, "A book with this ISBN already exists")
                ELSE Continue(p, BookFieldsCheck(req[p], "ub_update"))
    /\ UNCHANGED <<nextId, req>>

\* UPDATE books SET ... WHERE id = ?
UpdateBook_Update(p) ==
    /\ pc[p] = "ub_update"
    /\ \E c \in Conns, f \in FaultChoices :
         LET r == Run(f, SqlUpdateBook(committed, conn, c, p, req[p].id,
                             Trim(req[p].title), TrimIsbn(req[p].isbn)))
         IN  /\ Effect(p, c, f, r, [loc[p] EXCEPT !.err = r.err])
             /\ IF r.err # "OK" THEN BookCatch(p, r.err)
                ELSE Goto(p, "ub_fetch") /\ UNCHANGED res
    /\ UNCHANGED <<nextId, req>>

\* SELECT b.*, ... WHERE b.id = ?; updatedBook[0].average_rating throws a
\* TypeError when the book is gone.
UpdateBook_Fetch(p) ==
    /\ pc[p] = "ub_fetch"
    /\ \E c \in Conns, f \in FaultChoices :
         LET r == Run(f, SqlSelectBook(committed, conn, c, req[p].id))
         IN  /\ Effect(p, c, f, r,
                       [loc[p] EXCEPT !.err = IF r.err = "OK" /\ r.rows = {}
                                              THEN "TypeError" ELSE r.err])
             /\ IF r.err # "OK" \/ r.rows = {} THEN Reply(p, 500, "Server error")
                ELSE Reply(p, 200, "")
    /\ UNCHANGED <<nextId, req>>

\* ------------------------------------------------------- updateUserRole
\* UPDATE users SET role = ? ... WHERE id = ?; affectedRows === 0 is a 404.
UpdateUserRole_Update(p) ==
    /\ pc[p] = "role_update"
    /\ \E c \in Conns, f \in FaultChoices :
         LET r == Run(f, SqlUpdateUserRole(committed, conn, c, p, req[p].id,
                             req[p].role))
         IN  /\ Effect(p, c, f, r, [loc[p] EXCEPT !.err = r.err])
             /\ IF r.err # "OK" THEN Reply(p, 500, "Server error")
                ELSE IF r.rows = {} THEN Reply(p, 404, "User not found")
                ELSE Reply(p, 200, "")
    /\ UNCHANGED <<nextId, req>>

\* ------------------------------------------------- register, demoLogin
\* register: the INSERT; ER_DUP_ENTRY is a 400, any other error a 500.
Register_Insert(p) ==
    /\ pc[p] = "rg_insert"
    /\ \E c \in Conns, f \in FaultChoices :
         LET r == Run(f, SqlInsertUser(committed, conn, c, p, nextId.users,
                             req[p].username, req[p].email,
                             IF req[p].role = "admin" THEN "admin" ELSE "user"))
         IN  /\ Effect(p, c, f, r,
                  [loc[p] EXCEPT !.err = r.err,
                          !.insertId = IF r.err = "OK" THEN nextId.users ELSE 0])
             /\ nextId' = IF r.err = "OK"
                          THEN [nextId EXCEPT !.users = @ + 1] ELSE nextId
             /\ IF r.err = "OK" THEN Reply(p, 201, "")
                ELSE IF r.err = "ER_DUP_ENTRY" THEN Reply(p, 400, "Email already exists")
                ELSE Reply(p, 500, "Server error")
    /\ UNCHANGED req

\* demoLogin: SELECT * FROM users WHERE email = demoUser.email
DemoLogin_Select(p) ==
    /\ pc[p] = "dl_select"
    /\ \E c \in Conns, f \in FaultChoices :
         LET r == Run(f, SqlSelectUserByEmail(committed, conn, c,
                             DemoUser(req[p].userType).email))
         IN  /\ Effect(p, c, f, r, [loc[p] EXCEPT !.err = r.err])
             /\ IF r.err # "OK" THEN Reply(p, 500, "Server error")
                ELSE IF r.rows = {} THEN Goto(p, "dl_insert") /\ UNCHANGED res
                ELSE Reply(p, 200, "")
    /\ UNCHANGED <<nextId, req>>

\* demoLogin: the INSERT of the demo account; the catch answers every
\* error with a 500.
DemoLogin_Insert(p) ==
    /\ pc[p] = "dl_insert"
    /\ \E c \in Conns, f \in FaultChoices :
         LET d == DemoUser(req[p].userType)
             r == Run(f, SqlInsertUser(committed, conn, c, p, nextId.users,
                             d.username, d.email, d.role))
         IN  /\ Effect(p, c, f, r,
                  [loc[p] EXCEPT !.err = r.err,
                          !.insertId = IF r.err = "OK" THEN nextId.users ELSE 0])
             /\ nextId' = IF r.err = "OK"
                          THEN [nextId EXCEPT !.users = @ + 1] ELSE nextId
             /\ IF r.err = "OK" THEN Reply(p, 200, "")
                ELSE Reply(p, 500, "Server error")
    /\ UNCHANGED req

\* ------------------------------------- updateUser, updateUserProfile
\* The catch of both handlers: ER_DUP_ENTRY is a 400, the rest a 500.
UserCatch(p, err) ==
    IF err = "ER_DUP_ENTRY"
    THEN Reply(p, 400, "Email or username already exists")
    ELSE Reply(p, 500, "Server error")

\* updateUser: SELECT role FROM users WHERE id = req.user.userId, then
\* isAdmin, isOwner = parseInt(userId) === req.user.userId.
UpdateUser_Role(p) ==
    /\ pc[p] = "uu_role"
    /\ \E c \in Conns, f \in FaultChoices :
         LET r == Run(f, SqlSelectUser(committed, conn, c, req[p].caller))
             isAdmin == \E u \in r.rows : u.role = "admin"
             isOwner == ParseInt(req[p]) = req[p].caller
         IN  /\ Effect(p, c, f, r, [loc[p] EXCEPT !.err = r.err, !.isAdmin = isAdmin])
             /\ IF r.err # "OK" THEN UserCatch(p, r.err)
                ELSE IF ~isAdmin /\ ~isOwner THEN Reply(p, 403, "Unauthorized")
                ELSE Goto(p, "uu_exists") /\ UNCHANGED res
    /\ UNCHANGED <<nextId, req>>

\* updateUser: SELECT id FROM users WHERE id = ?
UpdateUser_Exists(p) ==
    /\ pc[p] = "uu_exists"
    /\ \E c \in Conns, f \in FaultChoices :
         LET r == Run(f, SqlSelectUser(committed, conn, c, req[p].id))
         IN  /\ Effect(p, c, f, r, [loc[p] EXCEPT !.err = r.err])
             /\ IF r.err # "OK" THEN UserCatch(p, r.err)
                ELSE IF r.rows = {} THEN Reply(p, 404, "User not found")
                ELSE Goto(p, "uu_dupEmail") /\ UNCHANGED res
    /\ UNCHANGED <<nextId, req>>

\* Both handlers: the duplicate-email check on the untrimmed email.
UpdateUser_DupEmail(p) ==
    /\ pc[p] = "uu_dupEmail"
    /\ \E c \in Conns, f \in FaultChoices :
         LET r == Run(f, SqlSelectDuplicateEmail(committed, conn, c, req[p].email,
                             EditedUser(req[p])))
         IN  /\ Effect(p, c, f, r, [loc[p] EXCEPT !.err = r.err])
             /\ IF r.err # "OK" THEN UserCatch(p, r.err)
                ELSE IF r.rows # {} THEN Reply(p, 400, "Email already exists")
                ELSE Goto(p, "uu_dupUsername") /\ UNCHANGED res
    /\ UNCHANGED <<nextId, req>>

\* Both handlers: the duplicate-username check.
UpdateUser_DupUsername(p) ==
    /\ pc[p] = "uu_dupUsername"
    /\ \E c \in Conns, f \in FaultChoices :
         LET r == Run(f, SqlSelectDuplicateUsername(committed, conn, c,
                             req[p].username, EditedUser(req[p])))
         IN  /\ Effect(p, c, f, r, [loc[p] EXCEPT !.err = r.err])
             /\ IF r.err # "OK" THEN UserCatch(p, r.err)
                ELSE IF r.rows # {} THEN Reply(p, 400, "Username already exists")
                ELSE Goto(p, "uu_update") /\ UNCHANGED res
    /\ UNCHANGED <<nextId, req>>

\* Both handlers: the UPDATE with username.trim() and email.trim().
UpdateUser_Update(p) ==
    /\ pc[p] = "uu_update"
    /\ \E c \in Conns, f \in FaultChoices :
         LET r == Run(f, SqlUpdateUser(committed, conn, c, p, EditedUser(req[p]),
                             TrimName(req[p].username), TrimName(req[p].email)))
         IN  /\ Effect(p, c, f, r, [loc[p] EXCEPT !.err = r.err])
             /\ IF r.err # "OK" THEN UserCatch(p, r.err)
                ELSE Goto(p, "uu_fetch") /\ UNCHANGED res
    /\ UNCHANGED <<nextId, req>>

\* Both handlers: the SELECT of the updated row; updatedUser[0].created_at
\* throws a TypeError when the row is not there.
UpdateUser_Fetch(p) ==
    /\ pc[p] = "uu_fetch"
    /\ \E c \in Conns, f \in FaultChoices :
         LET r == Run(f, SqlSelectUser(committed, conn, c, EditedUser(req[p])))
         IN  /\ Effect(p, c, f, r, [loc[p] EXCEPT !.err = r.err])
             /\ IF r.err # "OK" THEN UserCatch(p, r.err)
                ELSE IF r.rows = {} THEN Reply(p, 500, "Server error")
                ELSE Reply(p, 200, "")
    /\ UNCHANGED <<nextId, req>>

\* ------------------------------------------------------------- listings
\* A query-string value: left out, the text of an integer ('3', '0', '-2'),
\* or a text that starts with no digit ('abc').
Absent == [kind |-> "none", v |-> 0]
IntText(v) == [kind |-> "int", v |-> v]
Words == [kind |-> "text", v |-> 0]

\* parseInt(req.query.page): NaN for a value left out or without digits.
ParseIntQuery(q) ==
    IF q.kind = "int" THEN [nan |-> FALSE, v |-> q.v] ELSE [nan |-> TRUE, v |-> 0]

\* parseInt(...) || d: NaN and 0 are falsy.
OrDefault(n, d) == IF n.nan \/ n.v = 0 THEN d ELSE n.v

\* const page, limit, offset of getBooks, getBooksByAuthor and searchBooks
PageUsed(r) == OrDefault(ParseIntQuery(r.page), 1)
LimitUsed(r) == OrDefault(ParseIntQuery(r.limit), 10)
OffsetUsed(r) == (PageUsed(r) - 1) * LimitUsed(r)

\* getBooks: sortBy || 'created_at' checked against validSortFields, and
\* sortOrder || 'DESC' upper-cased and checked against ['ASC', 'DESC'].
ValidSortFields == {"created_at", "title", "author", "published_date",
                    "average_rating", "review_count"}
ToUpperCase(s) ==
    CASE s = "asc" -> "ASC"
      [] s = "desc" -> "DESC"
      [] s = "sideways" -> "SIDEWAYS"
      [] OTHER -> s
ValidSortBy(r) ==
    LET sortBy == IF r.sortBy = "" THEN "created_at" ELSE r.sortBy
    IN  IF sortBy \in ValidSortFields THEN sortBy ELSE "created_at"
ValidSortOrder(r) ==
    LET sortOrder == IF r.sortOrder = "" THEN "DESC" ELSE r.sortOrder
    IN  IF ToUpperCase(sortOrder) \in {"ASC", "DESC"}
        THEN ToUpperCase(sortOrder) ELSE "DESC"

\* The columns of the books table.
BookColumns == {"id", "title", "author", "description", "isbn", "published_date",
                "genre", "cover_image", "created_at", "updated_at"}

\* The place of a text in the order of utf8mb4_unicode_ci, for the texts
\* the catalogue holds.
Collate(text) ==
    CASE text = "austen" -> 1
      [] text = "dune" -> 2
      [] text = "emma" -> 3
      [] text = "herbert" -> 4
      [] OTHER -> 0

\* text LIKE '%pattern%'
Like(text, pattern) ==
    \/ pattern = ""
    \/ pattern = text
    \/ <<pattern, text>> \in {<<"e", "dune">>, <<"e", "emma">>, <<"e", "austen">>,
                              <<"e", "herbert">>, <<"un", "dune">>}

\* isbn LIKE '%pattern%': the patterns of the requests are letters, which
\* no isbn holds.
LikeIsbn(isbn, pattern) == FALSE

RECURSIVE SumRatings(_)
SumRatings(rs) ==
    IF rs = {} THEN 0
    ELSE LET r == CHOOSE x \in rs : TRUE IN r.rating + SumRatings(rs \ {r})

\* COALESCE(AVG(r.rating), 0) of book b as a fraction <<sum, count>>, and
\* COUNT(r.id)
AverageRating(b, reviews) ==
    LET rs == {r \in reviews : r.book_id = b.id}
    IN  IF rs = {} THEN <<0, 1>> ELSE <<SumRatings(rs), Cardinality(rs)>>
ReviewCount(b, reviews) == Cardinality({r \in reviews : r.book_id = b.id})

\* The value a row is sorted by, as a fraction: a column of books (texts by
\* their collation), the average rating or the review count.
SortValue(b, reviews, key) ==
    IF key = "average_rating" THEN AverageRating(b, reviews)
    ELSE IF key = "review_count" THEN <<ReviewCount(b, reviews), 1>>
    ELSE IF key \in {"title", "author"} THEN <<Collate(b[key]), 1>>
    ELSE <<b[key], 1>>

\* 0 when a and b are equal under ORDER BY key dir, -1 when a comes first,
\* 1 when b does.
CompareBy(a, b, reviews, key, dir) ==
    LET x == SortValue(a, reviews, key)
        y == SortValue(b, reviews, key)
        l == x[1] * y[2]
        r == y[1] * x[2]
    IN  IF l = r THEN 0
        ELSE IF (l < r) = (dir = "ASC") THEN 0 - 1 ELSE 1

\* ORDER BY k1 d1, k2 d2, ...: order is a sequence of <<key, direction>>.
RECURSIVE Compare(_, _, _, _)
Compare(a, b, reviews, order) ==
    IF order = <<>> THEN 0
    ELSE LET c == CompareBy(a, b, reviews, order[1][1], order[1][2])
         IN  IF c # 0 THEN c ELSE Compare(a, b, reviews, Tail(order))

\* The sequences in which the server may return rows under ORDER BY order:
\* rows that the ORDER BY does not tell apart come in any order, and not
\* in the same order from one statement to the next.
Orderings(rows, reviews, order) ==
    LET n == Cardinality(rows)
    IN  {s \in [1..n -> rows] :
            /\ \A i, j \in 1..n : i # j => s[i] # s[j]
            /\ \A i, j \in 1..n : i < j => Compare(s[i], s[j], reviews, order) <= 0}

\* LIMIT ? OFFSET ? on the ordered rows; only reached with limit >= 0 and
\* offset >= 0.
LimitOffset(s, limit, offset) ==
    IF offset >= Len(s) THEN <<>>
    ELSE SubSeq(s, offset + 1, IF offset + limit < Len(s) THEN offset + limit ELSE Len(s))

\* One WHERE condition of the listings with the parameters bound to it:
\* the free-text search on four columns, the genre, the author.
Holds(b, cond, params) ==
    CASE cond = "search" ->
           \/ Like(b.title, params[1]) \/ Like(b.author, params[2])
           \/ Like(b.description, params[3]) \/ LikeIsbn(b.isbn, params[4])
      [] cond = "genre" -> b.genre = params[1]
      [] cond = "author" -> Like(b.author, params[1])
Width(cond) == IF cond = "search" THEN 4 ELSE 1

\* whereConditions.join(' AND ') with the parameters in their order.
RECURSIVE Where(_, _, _)
Where(b, conds, params) ==
    IF conds = <<>> THEN TRUE
    ELSE /\ Holds(b, conds[1], SubSeq(params, 1, Width(conds[1])))
         /\ Where(b, Tail(conds),
                  SubSeq(params, Width(conds[1]) + 1, Len(params)))

RECURSIVE Placeholders(_)
Placeholders(conds) ==
    IF conds = <<>> THEN 0 ELSE Width(conds[1]) + Placeholders(Tail(conds))

\* The rows of a listing: those of the books the connection sees that pass
\* the WHERE conditions.
Matching(db, cn, c, conds, params) ==
    {b \in View(db, cn, c).books : Where(b, conds, params)}

\* SELECT b.*, COALESCE(AVG(r.rating), 0), COUNT(r.id) FROM books b LEFT JOIN
\* reviews r ... WHERE conds GROUP BY b.id ORDER BY order LIMIT ? OFFSET ?
\* An order item is <<key, direction, qualified>>; a qualified key is
\* written b.key and has to be a column of books. s is the sequence in
\* which the server returns the ordered rows; rows: the ids of the page.
SqlSelectBooksPage(db, cn, c, order, limit, offset, s) ==
    IF \E i \in 1..Len(order) : order[i][3] /\ order[i][1] \notin BookColumns
    THEN Err(db, cn, "ER_BAD_FIELD_ERROR")
    ELSE IF limit < 0 \/ offset < 0 THEN Err(db, cn, "ER_WRONG_ARGUMENTS")
    ELSE LET page == LimitOffset(s, limit, offset)
         IN  Ok(Same(db, cn), [i \in 1..Len(page) |-> page[i].id])

\* SELECT COUNT(DISTINCT b.id) as total FROM books b WHERE conds, with the
\* parameters the handler passes; rows: the total.
SqlCountBooks(db, cn, c, conds, countParams) ==
    IF Len(countParams) # Placeholders(conds)
    THEN Err(db, cn, "ER_WRONG_ARGUMENTS")
    ELSE Ok(Same(db, cn), Cardinality(Matching(db, cn, c, conds, countParams)))

\* Math.ceil(total / limit)
Ceil(total, limit) ==
    IF limit > 0 THEN (total + limit - 1) \div limit
    ELSE 0 - (total \div (0 - limit))

\* The body of a listing's answer: the ids of the page's books and the
\* pagination object.
Pagination(page, limit, total) ==
    [page |-> page, limit |-> limit, total |-> total,
     totalPages |-> Ceil(total, limit),
     hasNext |-> page < Ceil(total, limit),
     hasPrev |-> page > 1]
ListResponse(books, pagination) ==
    [status |-> 200, error |-> "", books |-> books, pagination |-> pagination]
ReplyList(p, books, pagination) ==
    /\ res' = [res EXCEPT ![p] = ListResponse(books, pagination)]
    /\ pc' = [pc EXCEPT ![p] = "done"]

\* -------------------------------------------------------------- getBooks
\* whereConditions and params of getBooks (q is req.query.search here).
GetBooksConds(r) ==
    (IF r.q # "" THEN <<"search">> ELSE <<>>)
    \o (IF r.genre # "" THEN <<"genre">> ELSE <<>>)
GetBooksParams(r) ==
    (IF r.q # "" THEN <<r.q, r.q, r.q, r.q>> ELSE <<>>)
    \o (IF r.genre # "" THEN <<r.genre>> ELSE <<>>)
    \o <<LimitUsed(r), OffsetUsed(r)>>

\* ORDER BY COALESCE(AVG(r.rating), 0) or b.<validSortBy>, validSortOrder
GetBooksOrder(r) ==
    <<<<ValidSortBy(r), ValidSortOrder(r), ValidSortBy(r) # "average_rating">>>>

\* The page query.
GetBooks_Page(p) ==
    /\ pc[p] = "lb_page"
    /\ \E c \in Conns, f \in FaultChoices :
         LET r0 == req[p]
             params == GetBooksParams(r0)
         IN  \E s \in Orderings(Matching(committed, conn, c, GetBooksConds(r0), params),
                                View(committed, conn, c).reviews, GetBooksOrder(r0)) :
                LET r == Run(f, SqlSelectBooksPage(committed, conn, c, GetBooksOrder(r0),
                                    LimitUsed(r0), OffsetUsed(r0), s))
                IN  /\ Effect(p, c, f, r,
                         [loc[p] EXCEPT !.err = r.err,
                                 !.books = IF r.err = "OK" THEN r.rows ELSE <<>>])
                    /\ IF r.err # "OK" THEN Reply(p, 500, "Server error")
                       ELSE Goto(p, "lb_count") /\ UNCHANGED res
    /\ UNCHANGED <<nextId, req>>

\* countParams = params.slice(0, -2) when there is a WHERE clause
GetBooksCountParams(r) ==
    LET params == GetBooksParams(r)
    IN  IF GetBooksConds(r) # <<>> THEN SubSeq(params, 1, Len(params) - 2) ELSE <<>>

\* The count query and the answer.
GetBooks_Count(p) ==
    /\ pc[p] = "lb_count"
    /\ \E c \in Conns, f \in FaultChoices :
         LET r0 == req[p]
             conds == GetBooksConds(r0)
             countParams == GetBooksCountParams(r0)
             r == Run(f, SqlCountBooks(committed, conn, c, conds, countParams))
         IN  /\ Effect(p, c, f, r, [loc[p] EXCEPT !.err = r.err])
             /\ IF r.err # "OK" THEN Reply(p, 500, "Server error")
                ELSE ReplyList(p, loc[p].books,
                               Pagination(PageUsed(r0), LimitUsed(r0), r.rows))
    /\ UNCHANGED <<nextId, req>>
\* ------------------------------------------------------ getBooksByAuthor
\* WHERE b.author LIKE ? ... ORDER BY b.published_date DESC, b.title ASC
AuthorOrder == <<<<"published_date", "DESC", TRUE>>, <<"title", "ASC", TRUE>>>>

GetBooksByAuthor_Page(p) ==
    /\ pc[p] = "la_page"
    /\ \E c \in Conns, f \in FaultChoices :
         LET r0 == req[p]
         IN  \E s \in Orderings(Matching(committed, conn, c, <<"author">>, <<r0.author>>),
                                View(committed, conn, c).reviews, AuthorOrder) :
                LET r == Run(f, SqlSelectBooksPage(committed, conn, c, AuthorOrder,
                                    LimitUsed(r0), OffsetUsed(r0), s))
                IN  /\ Effect(p, c, f, r,
                         [loc[p] EXCEPT !.err = r.err,
                                 !.books = IF r.err = "OK" THEN r.rows ELSE <<>>])
                    /\ IF r.err # "OK" THEN Reply(p, 500, "Server error")
                       ELSE Goto(p, "la_count") /\ UNCHANGED res
    /\ UNCHANGED <<nextId, req>>

\* SELECT COUNT(*) as total FROM books WHERE author LIKE ?, and the answer.
GetBooksByAuthor_Count(p) ==
    /\ pc[p] = "la_count"
    /\ \E c \in Conns, f \in FaultChoices :
         LET r0 == req[p]
             r == Run(f, SqlCountBooks(committed, conn, c, <<"author">>, <<r0.author>>))
         IN  /\ Effect(p, c, f, r, [loc[p] EXCEPT !.err = r.err])
             /\ IF r.err # "OK" THEN Reply(p, 500, "Server error")
                ELSE ReplyList(p, loc[p].books,
                               Pagination(PageUsed(r0), LimitUsed(r0), r.rows))
    /\ UNCHANGED <<nextId, req>>

\* ----------------------------------------------------------- searchBooks
\* whereConditions of searchBooks and their parameters.
SearchConds(r) ==
    (IF r.q # "" THEN <<"search">> ELSE <<>>)
    \o (IF r.genre # "" THEN <<"genre">> ELSE <<>>)
    \o (IF r.author # "" THEN <<"author">> ELSE <<>>)
SearchWhereParams(r) ==
    (IF r.q # "" THEN <<r.q, r.q, r.q, r.q>> ELSE <<>>)
    \o (IF r.genre # "" THEN <<r.genre>> ELSE <<>>)
    \o (IF r.author # "" THEN <<r.author>> ELSE <<>>)

\* The parameters of HAVING: parseFloat(minRating), parseFloat(maxRating).
RatingParams(r) ==
    (IF r.minRating.kind # "none" THEN <<r.minRating.v>> ELSE <<>>)
    \o (IF r.maxRating.kind # "none" THEN <<r.maxRating.v>> ELSE <<>>)
SearchParams(r) ==
    SearchWhereParams(r) \o RatingParams(r) \o <<LimitUsed(r), OffsetUsed(r)>>

\* HAVING COALESCE(AVG(r.rating), 0) >= ? AND COALESCE(AVG(r.rating), 0) <= ?
Having(b, reviews, r) ==
    LET avg == AverageRating(b, reviews)
    IN  /\ r.minRating.kind # "none" => avg[1] >= r.minRating.v * avg[2]
        /\ r.maxRating.kind # "none" => avg[1] <= r.maxRating.v * avg[2]

\* switch (sortBy)
SearchOrder(r) ==
    CASE r.sortBy = "title" -> <<<<"title", "ASC", TRUE>>>>
      [] r.sortBy = "author" -> <<<<"author", "ASC", TRUE>>>>
      [] r.sortBy = "rating" -> <<<<"average_rating", "DESC", FALSE>>>>
      [] r.sortBy = "newest" -> <<<<"created_at", "DESC", TRUE>>>>
      [] r.sortBy = "oldest" -> <<<<"created_at", "ASC", TRUE>>>>
      [] OTHER -> <<<<"review_count", "DESC", FALSE>>, <<"average_rating", "DESC", FALSE>>>>

\* countParams = params.slice(0, whereConditions.length * (q ? 4 : 1))
SearchCountParams(r) ==
    LET params == SearchParams(r)
        n == Len(SearchConds(r)) * (IF r.q # "" THEN 4 ELSE 1)
    IN  SubSeq(params, 1, IF n < Len(params) THEN n ELSE Len(params))

\* The page query.
SearchBooks_Page(p) ==
    /\ pc[p] = "sb_page"
    /\ \E c \in Conns, f \in FaultChoices :
         LET r0 == req[p]
             reviews == View(committed, conn, c).reviews
             rows == {b \in Matching(committed, conn, c, SearchConds(r0),
                                     SearchWhereParams(r0)) : Having(b, reviews, r0)}
         IN  \E s \in Orderings(rows, reviews, SearchOrder(r0)) :
                LET r == Run(f, SqlSelectBooksPage(committed, conn, c, SearchOrder(r0),
                                    LimitUsed(r0), OffsetUsed(r0), s))
                IN  /\ Effect(p, c, f, r,
                         [loc[p] EXCEPT !.err = r.err,
                                 !.books = IF r.err = "OK" THEN r.rows ELSE <<>>])
                    /\ IF r.err # "OK" THEN Reply(p, 500, "Server error")
                       ELSE Goto(p, "sb_count") /\ UNCHANGED res
    /\ UNCHANGED <<nextId, req>>

\* SELECT COUNT(DISTINCT b.id) as total FROM books b WHERE ..., and the
\* answer.
SearchBooks_Count(p) ==
    /\ pc[p] = "sb_count"
    /\ \E c \in Conns, f \in FaultChoices :
         LET r0 == req[p]
             r == Run(f, SqlCountBooks(committed, conn, c, SearchConds(r0),
                             SearchCountParams(r0)))
         IN  /\ Effect(p, c, f, r, [loc[p] EXCEPT !.err = r.err])
             /\ IF r.err # "OK" THEN Reply(p, 500, "Server error")
                ELSE ReplyList(p, loc[p].books,
                               Pagination(PageUsed(r0), LimitUsed(r0), r.rows))
    /\ UNCHANGED <<nextId, req>>

\* ----------------------------------------------------- review statistics
\* AVG(rating): NULL over no row, else the sum over the count.
SqlAvg(rs) ==
    IF rs = {} THEN [null |-> TRUE, sum |-> 0, count |-> 1]
    ELSE [null |-> FALSE, sum |-> SumRatings(rs), count |-> Cardinality(rs)]

\* MIN(rating), MAX(rating): NULL (written 0 here, which no rating is) over
\* no row.
SqlMin(rs) ==
    IF rs = {} THEN 0 ELSE CHOOSE m \in {r.rating : r \in rs} :
                              \A r \in rs : m <= r.rating
SqlMax(rs) ==
    IF rs = {} THEN 0 ELSE CHOOSE m \in {r.rating : r \in rs} :
                              \A r \in rs : m >= r.rating

\* SELECT rating, COUNT(*) as count FROM ... GROUP BY rating ORDER BY
\* rating DESC: one row per rating that occurs, the highest first.
RECURSIVE RatingDistribution(_)
RatingDistribution(rs) ==
    IF rs = {} THEN <<>>
    ELSE LET m == SqlMax(rs)
             same == {r \in rs : r.rating = m}
         IN  <<[rating |-> m, count |-> Cardinality(same)]>>
             \o RatingDistribution(rs \ same)

\* SELECT COUNT(*), AVG(rating), MIN(rating), MAX(rating) FROM reviews
\* WHERE book_id = ?
SqlBookReviewStats(db, cn, c, id) ==
    LET rs == {r \in View(db, cn, c).reviews : r.book_id = id}
    IN  Ok(Same(db, cn), [total |-> Cardinality(rs), average |-> SqlAvg(rs),
                          lowest |-> SqlMin(rs), highest |-> SqlMax(rs)])

\* SELECT rating, COUNT(*) ... FROM reviews WHERE book_id = ? GROUP BY rating
SqlBookRatingDistribution(db, cn, c, id) ==
    Ok(Same(db, cn),
       RatingDistribution({r \in View(db, cn, c).reviews : r.book_id = id}))

\* SELECT r.rating, ... FROM reviews r JOIN users u ON r.user_id = u.id
\* WHERE r.book_id = ? ORDER BY r.created_at DESC LIMIT 5
SqlRecentReviewsOf(db, cn, c, id) ==
    LET v == View(db, cn, c)
    IN  Ok(Same(db, cn), {r \in v.reviews :
                             r.book_id = id /\ \E u \in v.users : u.id = r.user_id})

\* SELECT COUNT(*) as total FROM reviews
SqlCountReviews(db, cn, c) ==
    Ok(Same(db, cn), Cardinality(View(db, cn, c).reviews))

\* SELECT AVG(rating) as average FROM reviews
SqlAvgReviews(db, cn, c) == Ok(Same(db, cn), SqlAvg(View(db, cn, c).reviews))

\* SELECT rating, COUNT(*) as count FROM reviews GROUP BY rating ...
SqlRatingDistribution(db, cn, c) ==
    Ok(Same(db, cn), RatingDistribution(View(db, cn, c).reviews))

\* SELECT u.username, u.id, COUNT(r.id) FROM users u JOIN reviews r ...
\* GROUP BY u.id, u.username ORDER BY review_count DESC LIMIT 10
SqlTopReviewers(db, cn, c) ==
    LET v == View(db, cn, c)
    IN  Ok(Same(db, cn),
           {[id |-> u.id,
             review_count |-> Cardinality({r \in v.reviews : r.user_id = u.id})] :
               u \in {x \in v.users : \E r \in v.reviews : r.user_id = x.id}})

\* SELECT COUNT(*) FROM reviews WHERE created_at >= DATE_SUB(NOW(), INTERVAL
\* 30 DAY): every review of a run is younger than that.
SqlRecentActivity(db, cn, c) ==
    Ok(Same(db, cn), Cardinality(View(db, cn, c).reviews))

\* A number as toFixed() writes it: a count of tenths or hundredths, or
\* 'NaN' or 'Infinity'.
Fixed(n) == [kind |-> "number", n |-> n]
NotANumber == [kind |-> "NaN", n |-> 0]
Infinity == [kind |-> "Infinity", n |-> 0]
IsZero(x) == x = Fixed(0)

\* (num / den).toFixed(digits) as a count of units of 10^-digits, scale
\* being 10^digits: the nearest count, the larger of two equally near.
ToFixed(num, den, scale) ==
    IF den = 0 THEN IF num = 0 THEN NotANumber ELSE Infinity
    ELSE Fixed((2 * num * scale + den) \div (2 * den))

\* parseFloat(average || 0).toFixed(2), in hundredths
AverageToFixed(average) ==
    IF average.null THEN Fixed(0) ELSE ToFixed(average.sum, average.count, 100)

\* ((item.count / total) * 100).toFixed(1), in tenths
PercentageOf(count, total) == ToFixed(count * 100, total, 10)

\* getBookReviewSummary: totalReviews > 0 ? (...).toFixed(1) : '0'
GuardedPercentageOf(count, total) ==
    IF total > 0 THEN PercentageOf(count, total) ELSE Fixed(0)

\* ratingDistribution.map(item => ({rating, count, percentage}))
WithPercentages(dist, total, percentage(_, _)) ==
    [i \in 1..Len(dist) |->
        [rating |-> dist[i].rating, count |-> dist[i].count,
         percentage |-> percentage(dist[i].count, total)]]

SummaryResponse(bookId, l) ==
    [status |-> 200, error |-> "", bookId |-> bookId, totalReviews |-> l.total,
     averageRating |-> AverageToFixed(l.average),
     minRating |-> l.lowest, maxRating |-> l.highest,
     ratingDistribution |-> WithPercentages(l.dist, l.total, GuardedPercentageOf)]

StatsResponse(l, recentActivity) ==
    [status |-> 200, error |-> "", totalReviews |-> l.total,
     averageRating |-> AverageToFixed(l.average),
     recentActivity |-> recentActivity,
     ratingDistribution |-> WithPercentages(l.dist, l.total, PercentageOf),
     topReviewers |-> l.top]

\* Statement stmt of a handler, run on some pool connection: on an error
\* the catch answers 500, else the handler goes on as onward tells.
\* onward(r) is an action on pc and res; set(r) gives the locals.
Statement(p, stmt(_), set(_), onward(_)) ==
    /\ \E c \in Conns, f \in FaultChoices :
         LET r == Run(f, stmt(c))
         IN  /\ Effect(p, c, f, r,
                  IF r.err = "OK" THEN [set(r) EXCEPT !.err = "OK"]
                  ELSE [loc[p] EXCEPT !.err = r.err])
             /\ IF r.err # "OK" THEN Reply(p, 500, "Server error") ELSE onward(r)
    /\ UNCHANGED <<nextId, req>>

\* --------------------------------------------------- getBookReviewSummary
\* SELECT id, title FROM books WHERE id = ?
Summary_SelectBook(p) ==
    /\ pc[p] = "rs_book"
    /\ LET stmt(c) == SqlSelectBook(committed, conn, c, req[p].id)
           set(r) == loc[p]
           onward(r) == IF r.rows = {} THEN Reply(p, 404, "Book not found")
                        ELSE Goto(p, "rs_stats") /\ UNCHANGED res
       IN  Statement(p, stmt, set, onward)

Summary_Stats(p) ==
    /\ pc[p] = "rs_stats"
    /\ LET stmt(c) == SqlBookReviewStats(committed, conn, c, req[p].id)
           set(r) == [loc[p] EXCEPT !.total = r.rows.total,
                                    !.average = r.rows.average,
                                    !.lowest = r.rows.lowest,
                                    !.highest = r.rows.highest]
           onward(r) == Goto(p, "rs_dist") /\ UNCHANGED res
       IN  Statement(p, stmt, set, onward)

Summary_Distribution(p) ==
    /\ pc[p] = "rs_dist"
    /\ LET stmt(c) == SqlBookRatingDistribution(committed, conn, c, req[p].id)
           set(r) == [loc[p] EXCEPT !.dist = r.rows]
           onward(r) == Goto(p, "rs_recent") /\ UNCHANGED res
       IN  Statement(p, stmt, set, onward)

\* The recent reviews, and the answer.
Summary_Recent(p) ==
    /\ pc[p] = "rs_recent"
    /\ LET stmt(c) == SqlRecentReviewsOf(committed, conn, c, req[p].id)
           set(r) == loc[p]
           onward(r) ==
               /\ res' = [res EXCEPT ![p] = SummaryResponse(ParseInt(req[p]), loc[p])]
               /\ pc' = [pc EXCEPT ![p] = "done"]
       IN  Statement(p, stmt, set, onward)

\* --------------------------------------------------------- getReviewStats
Stats_Total(p) ==
    /\ pc[p] = "st_total"
    /\ LET stmt(c) == SqlCountReviews(committed, conn, c)
           set(r) == [loc[p] EXCEPT !.total = r.rows]
           onward(r) == Goto(p, "st_avg") /\ UNCHANGED res
       IN  Statement(p, stmt, set, onward)

Stats_Average(p) ==
    /\ pc[p] = "st_avg"
    /\ LET stmt(c) == SqlAvgReviews(committed, conn, c)
           set(r) == [loc[p] EXCEPT !.average = r.rows]
           onward(r) == Goto(p, "st_dist") /\ UNCHANGED res
       IN  Statement(p, stmt, set, onward)

Stats_Distribution(p) ==
    /\ pc[p] = "st_dist"
    /\ LET stmt(c) == SqlRatingDistribution(committed, conn, c)
           set(r) == [loc[p] EXCEPT !.dist = r.rows]
           onward(r) == Goto(p, "st_top") /\ UNCHANGED res
       IN  Statement(p, stmt, set, onward)

Stats_TopReviewers(p) ==
    /\ pc[p] = "st_top"
    /\ LET stmt(c) == SqlTopReviewers(committed, conn, c)
           set(r) == [loc[p] EXCEPT !.top = r.rows]
           onward(r) == Goto(p, "st_recent") /\ UNCHANGED res
       IN  Statement(p, stmt, set, onward)

\* The recent activity, and the answer.
Stats_Recent(p) ==
    /\ pc[p] = "st_recent"
    /\ LET stmt(c) == SqlRecentActivity(committed, conn, c)
           set(r) == loc[p]
           onward(r) ==
               /\ res' = [res EXCEPT ![p] = StatsResponse(loc[p], r.rows)]
               /\ pc' = [pc EXCEPT ![p] = "done"]
       IN  Statement(p, stmt, set, onward)

\* -------------------------------------------------------- getRelatedBooks
\* SELECT b.*, ... FROM books b LEFT JOIN reviews r ... WHERE b.genre = ?
\* AND b.id != ? GROUP BY b.id ORDER BY average_rating DESC, review_count
\* DESC LIMIT ?; s: the sequence in which the server returns the rows.
RelatedOrder == <<<<"average_rating", "DESC", FALSE>>, <<"review_count", "DESC", FALSE>>>>
RelatedTo(db, cn, c, genre, id) ==
    {b \in View(db, cn, c).books : b.genre = genre /\ b.id # id}
SqlSelectRelatedBooks(db, cn, c, limit, s) ==
    IF limit < 0 THEN Err(db, cn, "ER_WRONG_ARGUMENTS")
    ELSE LET page == LimitOffset(s, limit, 0)
         IN  Ok(Same(db, cn), [i \in 1..Len(page) |-> page[i].id])

\* parseInt(req.query.limit) || 6
RelatedLimit(r) == OrDefault(ParseIntQuery(r.limit), 6)

\* res.json(formattedBooks): the ids of the books.
ReplyRelated(p, books) ==
    /\ res' = [res EXCEPT ![p] = [status |-> 200, error |-> "", books |-> books]]
    /\ pc' = [pc EXCEPT ![p] = "done"]

\* SELECT genre FROM books WHERE id = ?
Related_Select(p) ==
    /\ pc[p] = "rb_select"
    /\ LET stmt(c) == SqlSelectBook(committed, conn, c, req[p].id)
           set(r) == [loc[p] EXCEPT !.snap = [NoRows EXCEPT !.books = r.rows]]
           onward(r) ==
               IF r.rows = {} THEN Reply(p, 404, "Book not found")
               ELSE IF \A b \in r.rows : b.genre = ""
               THEN ReplyRelated(p, <<>>)
               ELSE Goto(p, "rb_related") /\ UNCHANGED res
       IN  Statement(p, stmt, set, onward)

Related_Books(p) ==
    /\ pc[p] = "rb_related"
    /\ \E c \in Conns, f \in FaultChoices :
         \E s \in Orderings(RelatedTo(committed, conn, c,
                                (CHOOSE b \in loc[p].snap.books : TRUE).genre, req[p].id),
                            View(committed, conn, c).reviews, RelatedOrder) :
            LET r == Run(f, SqlSelectRelatedBooks(committed, conn, c,
                                                  RelatedLimit(req[p]), s))
            IN  /\ Effect(p, c, f, r, [loc[p] EXCEPT !.err = r.err])
                /\ IF r.err # "OK" THEN Reply(p, 500, "Server error")
                   ELSE ReplyRelated(p, r.rows)
    /\ UNCHANGED <<nextId, req>>

\* ------------------------------------------------------------ getUserById
\* SELECT COUNT(*), AVG(rating) FROM reviews WHERE user_id = ?
SqlUserReviewStats(db, cn, c, id) ==
    LET rs == {r \in View(db, cn, c).reviews : r.user_id = id}
    IN  Ok(Same(db, cn), [total |-> Cardinality(rs), average |-> SqlAvg(rs)])

\* SELECT r.*, b.title ... FROM reviews r JOIN books b ON r.book_id = b.id
\* WHERE r.user_id = ? ORDER BY r.created_at DESC LIMIT 5
SqlRecentReviewsBy(db, cn, c, id) ==
    LET v == View(db, cn, c)
    IN  Ok(Same(db, cn), {r \in v.reviews :
                             r.user_id = id /\ \E b \in v.books : b.id = r.book_id})

GetUserById_Select(p) ==
    /\ pc[p] = "gu_select"
    /\ LET stmt(c) == SqlSelectUser(committed, conn, c, req[p].id)
           set(r) == loc[p]
           onward(r) == IF r.rows = {} THEN Reply(p, 404, "User not found")
                        ELSE Goto(p, "gu_stats") /\ UNCHANGED res
       IN  Statement(p, stmt, set, onward)

GetUserById_Stats(p) ==
    /\ pc[p] = "gu_stats"
    /\ LET stmt(c) == SqlUserReviewStats(committed, conn, c, req[p].id)
           set(r) == [loc[p] EXCEPT !.total = r.rows.total, !.average = r.rows.average]
           onward(r) == Goto(p, "gu_recent") /\ UNCHANGED res
       IN  Statement(p, stmt, set, onward)

GetUserById_Recent(p) ==
    /\ pc[p] = "gu_recent"
    /\ LET stmt(c) == SqlRecentReviewsBy(committed, conn, c, req[p].id)
           set(r) == loc[p]
           onward(r) == Reply(p, 200, "")
       IN  Statement(p, stmt, set, onward)

\* --------------------------------------------------------- initial state
UserRow(id, role) == [id |-> id, role |-> role,
                      username |-> Name(id, FALSE), email |-> Name(id, FALSE)]
BookRow(id) == [id |-> id, title |-> "demo", isbn |-> Isbn(id, FALSE)]
ReviewRow(id, u, b, rating) == [id |-> id, user_id |-> u, book_id |-> b, rating |-> rating]
WishRow(u, b) == [user_id |-> u, book_id |-> b]

\* After initDatabase (the demo admin, the demo books) and the registration
\* of the other users.
SeedUsers == {UserRow(u, IF u = 1 THEN "admin" ELSE "user") : u \in UserIds}
SeedBooks == {BookRow(b) : b \in BookIds}

\* let db: not assigned yet
Undefined == 0

\* The process as the module has been loaded: no pool, not listening.
Booting(build) ==
    [build |-> build, phase |-> "boot", db |-> Undefined, tested |-> FALSE,
     tables |-> FALSE, listening |-> FALSE, initFailed |-> FALSE,
     signal |-> "none", closed |-> FALSE, status |-> "running", code |-> 0]

\* The process once startServer has run through: pool created and tested,
\* tables created, listening.
Serving ==
    [Booting("modular") EXCEPT !.phase = "serving", !.db = 1, !.tested = TRUE,
                               !.tables = TRUE, !.listening = TRUE]

InitCommon ==
    /\ server = Serving
    /\ conn = [c \in Conns |-> FreshConn]
    /\ req = [p \in Procs |-> IdleReq]
    /\ pc = [p \in Procs |-> "idle"]
    /\ loc = [p \in Procs |-> InitLoc]
    /\ res = [p \in Procs |-> NoResponse]
    /\ faults = 0
    /\ started = 0

\* ------------------------------------------------- cascading deletes
\* The store with reviews written earlier; the wishlist table, which
\* createTables does not create, is there only if provisioned by hand.
InitCascade ==
    /\ InitCommon
    /\ wishlistExists \in BOOLEAN
    /\ txnPreparable \in BOOLEAN
    /\ committed = [users |-> SeedUsers, books |-> SeedBooks,
                    reviews |-> {ReviewRow(1, 2, 1, 4), ReviewRow(2, 3, 1, 5)},
                    wishlist |-> IF wishlistExists THEN {WishRow(2, 1)} ELSE {}]
    /\ nextId = [reviews |-> 3, books |-> NumBooks + 1, users |-> NumUsers + 1]
    /\ faultBudget = MaxFaults

Request(op, auth, caller, id) ==
    [IdleReq EXCEPT !.op = op, !.auth = auth, !.caller = caller, !.id = id,
                    !.lead = id]
ReviewRequest(op, caller, id, book_id, rating) ==
    [IdleReq EXCEPT !.op = op, !.auth = "valid", !.caller = caller, !.id = id,
                    !.lead = id,
                    !.book_id = book_id, !.rating = rating]
BookRequest(op, auth, caller, id, title, isbn) ==
    [IdleReq EXCEPT !.op = op, !.auth = auth, !.caller = caller, !.id = id,
                    !.lead = id,
                    !.title = title, !.author = "author", !.isbn = isbn]

CascadeRequests ==
    {Request("deleteBook", "valid", 1, 1), Request("deleteUser", "valid", 1, 2),
     Request("getBookById", "none", 0, 1)}

StartCascade(p) == Start(p, CascadeRequests, MaxCascadeRequests)

NextCascade ==
    \E p \in Procs :
       \/ StartCascade(p)
       \/ RequireAdmin(p)
       \/ CascadeSelect(p)
       \/ CascadeBegin(p)
       \/ CascadeDelReviews(p)
       \/ CascadeDelWishlist(p)
       \/ CascadeDelParent(p)
       \/ CascadeCommit(p)
       \/ CascadeRollback(p)
       \/ GetBookById(p)

SpecCascade == InitCascade /\ [][NextCascade]_vars


InFlight(p) == pc[p] \notin {"idle", "done"}
Answered(p) == pc[p] = "done"

\* C1: a deleteBook or deleteUser that answers with a failure leaves the
\* parent row, its reviews and its wishlist entries exactly as they were
\* when the request arrived (no other request having written meanwhile).
C1_CascadeAllOrNothing ==
    \A p \in Procs :
       (/\ Answered(p) /\ CascadeOp(req[p].op)
        /\ res[p].status = 500
        /\ loc[p].alone)
       => Related(committed, req[p].op, req[p].id) = loc[p].snap

\* C2: against the schema createTables creates (no wishlist table), with
\* every statement reaching the server, a deleteBook by an admin for an
\* existing book answers 200 and leaves neither the book nor a review of it.
C2_DeleteBookSucceeds ==
    \A p \in Procs :
       (/\ Answered(p) /\ req[p].op = "deleteBook"
        /\ ~wishlistExists /\ faults = 0
        /\ loc[p].isAdmin /\ loc[p].snap.books # {}
        /\ loc[p].alone)
       => /\ res[p].status = 200
          /\ Related(committed, "deleteBook", req[p].id) = NoRows

\* C6: with two cascading deletes in flight, a statement inside one
\* request's START TRANSACTION .. COMMIT/ROLLBACK makes nothing permanent
\* before that request's COMMIT, and a request's COMMIT or ROLLBACK ends
\* only a transaction that holds no write of the other request.
C6_TransactionsIsolated ==
    [][\A p \in Procs :
          (/\ CascadeOp(req[p].op)
           /\ \E q \in Procs \ {p} : CascadeOp(req[q].op) /\ InFlight(q))
          => /\ (/\ pc[p] \in {"cd_delReviews", "cd_delWishlist", "cd_delParent"}
                 /\ pc'[p] # pc[p])
                => committed' = committed
             /\ (/\ pc[p] \in {"cd_commit", "cd_rollback"}
                 /\ pc'[p] # pc[p])
                => \A c \in Conns :
                      conn'[c] # conn[c] => conn[c].by \subseteq {p}]_vars

\* ------------------------------------------------------------- reviews
\* The store as initDatabase leaves it, the users registered.
InitReview ==
    /\ InitCommon
    /\ wishlistExists \in BOOLEAN
    /\ txnPreparable \in BOOLEAN
    /\ committed = [users |-> SeedUsers, books |-> SeedBooks, reviews |-> {},
                    wishlist |-> {}]
    /\ nextId = [reviews |-> 1, books |-> NumBooks + 1, users |-> NumUsers + 1]
    /\ faultBudget = 0

ReviewRequests ==
    {ReviewRequest("createReview", u, 0, b, Num(8)) :
        u \in {2, 3}, b \in {1, NumBooks + 1}}
    \cup {ReviewRequest("updateReview", u, 1, 0, Num(4)) : u \in UserIds}
    \cup {ReviewRequest("deleteReview", u, 1, 0, NoRating) : u \in UserIds}
    \cup {Request("deleteBook", "valid", 1, 1), Request("deleteUser", "valid", 1, 2)}

StartReview(p) ==
    /\ nextId.reviews <= MaxReviewId
    /\ Start(p, ReviewRequests, MaxReviewRequests)

NextReview ==
    \E p \in Procs :
       \/ StartReview(p)
       \/ CreateReview_SelectBook(p)
       \/ CreateReview_SelectExisting(p)
       \/ CreateReview_Insert(p)
       \/ CreateReview_Fetch(p)
       \/ UpdateReview_Select(p)
       \/ UpdateReview_Update(p)
       \/ UpdateReview_Fetch(p)
       \/ DeleteReview_Select(p)
       \/ DeleteReview_Role(p)
       \/ DeleteReview_Delete(p)
       \/ RequireAdmin(p)
       \/ CascadeSelect(p)
       \/ CascadeBegin(p)
       \/ CascadeDelReviews(p)
       \/ CascadeDelWishlist(p)
       \/ CascadeDelParent(p)
       \/ CascadeCommit(p)
       \/ CascadeRollback(p)

SpecReview == InitReview /\ [][NextReview]_vars

\* The review rows some statement can read: the committed ones and those a
\* connection sees through its open transaction.
VisibleReviews == {committed.reviews} \cup {View(committed, conn, c).reviews : c \in Conns}

\* C3: under every interleaving of createReview, updateReview, deleteReview,
\* deleteBook and deleteUser, no two review rows share user_id and book_id.
C3_OneReviewPerUserAndBook ==
    \A rows \in VisibleReviews :
       \A r1, r2 \in rows :
          (r1.user_id = r2.user_id /\ r1.book_id = r2.book_id) => r1 = r2

\* Two createReview requests of one user for one book raced past the
\* existence check and the second INSERT was refused by the unique key.
C3_Witness ==
    \E p \in Procs :
       /\ Answered(p) /\ req[p].op = "createReview"
       /\ loc[p].err = "ER_DUP_ENTRY"
       /\ \E r \in committed.reviews :
             r.user_id = req[p].caller /\ r.book_id = req[p].book_id

\* C5: every review row references a user row and a book row that exist,
\* and a createReview whose book id matches no book row answers 404 'Book
\* not found' at its first statement and writes nothing.
C5_ReviewsReferenceExisting ==
    /\ [](\A r \in committed.reviews :
             /\ \E u \in committed.users : u.id = r.user_id
             /\ \E b \in committed.books : b.id = r.book_id)
    /\ [][\A p \in Procs :
             (/\ pc[p] = "cr_selectBook" /\ pc'[p] # pc[p]
              /\ ~\E b \in committed.books : b.id = req[p].book_id)
             => /\ pc'[p] = "done"
                /\ res'[p] = Response(404, "Book not found")
                /\ committed' = committed /\ conn' = conn]_vars

\* A createReview passed the book check, the book was deleted under it and
\* the foreign key refused the INSERT; another createReview named a book id
\* that never existed and got 404.
C5_Witness ==
    /\ \E p \in Procs :
          /\ Answered(p) /\ req[p].op = "createReview"
          /\ loc[p].err = "ER_NO_REFERENCED_ROW_2"
    /\ \E q \in Procs :
          /\ Answered(q) /\ req[q].op = "createReview"
          /\ req[q].book_id = NumBooks + 1
          /\ res[q] = Response(404, "Book not found")

\* ------------------------------------ review handlers on their own
\* Ratings a body may carry: none, 0.5, 4, 4.5, 6, 'abc'.
RatingInputs == {NoRating, Num(1), Num(8), Num(9), Num(12), NotNumber}
\* and those of an update: none, 2, 4.5, 6, 'abc'.
UpdateRatingInputs == {NoRating, Num(4), Num(9), Num(12), NotNumber}

InitOwner ==
    /\ InitCommon
    /\ wishlistExists = FALSE
    /\ txnPreparable = FALSE
    /\ committed = [users |-> SeedUsers, books |-> SeedBooks, reviews |-> {},
                    wishlist |-> {}]
    /\ nextId = [reviews |-> 1, books |-> NumBooks + 1, users |-> NumUsers + 1]
    /\ faultBudget = 0

OwnerRequests ==
    {ReviewRequest("createReview", u, 0, 1, g) : u \in {2, 3}, g \in RatingInputs}
    \cup {ReviewRequest("updateReview", u, id, 0, g) :
             u \in UserIds, id \in {1, 2}, g \in UpdateRatingInputs}
    \cup {ReviewRequest("deleteReview", u, id, 0, NoRating) :
             u \in UserIds, id \in {1, 2}}

StartOwner(p) ==
    /\ nextId.reviews <= MaxReviewId
    /\ Start(p, OwnerRequests, MaxOwnerRequests)

NextOwner ==
    \E p \in Procs :
       \/ StartOwner(p)
       \/ CreateReview_SelectBook(p)
       \/ CreateReview_SelectExisting(p)
       \/ CreateReview_Insert(p)
       \/ CreateReview_Fetch(p)
       \/ UpdateReview_Select(p)
       \/ UpdateReview_Update(p)
       \/ UpdateReview_Fetch(p)
       \/ DeleteReview_Select(p)
       \/ DeleteReview_Role(p)
       \/ DeleteReview_Delete(p)

SpecOwner == InitOwner /\ [][NextOwner]_vars

\* C4: a createReview of a user who already has a review of the book, the
\* loser of a race between two such requests included, answers 400 'You
\* have already reviewed this book' and inserts nothing.
C4_DuplicateAnswered400 ==
    \A p \in Procs :
       (/\ Answered(p) /\ req[p].op = "createReview"
        /\ loc[p].err = "ER_DUP_ENTRY")
       => /\ res[p] = Response(400, "You have already reviewed this book")
          /\ loc[p].insertId = 0

\* The stored review a request names, as it was when the request arrived.
Target(p) == loc[p].snap.reviews
OwnedBy(rows, u) == rows # {} /\ \A r \in rows : r.user_id = u

\* C7: an updateReview by anyone but the owner answers 403 and
\* leaves the review as it was; one whose id matches no review answers 404
\* and changes nothing.
C7_UpdateOnlyByOwner ==
    \A p \in Procs :
       (/\ Answered(p) /\ req[p].op = "updateReview" /\ loc[p].alone)
       => /\ (Target(p) # {} /\ ~OwnedBy(Target(p), req[p].caller))
             => /\ res[p].status = 403
                /\ Related(committed, "updateReview", req[p].id) = loc[p].snap
          /\ Target(p) = {}
             => /\ res[p].status = 404
                /\ Related(committed, "updateReview", req[p].id) = loc[p].snap

HasAdminRole(u) == \E x \in committed.users : x.id = u /\ x.role = "admin"

\* C8: a deleteReview for an existing review removes it and answers 200 when
\* the caller owns it or has the admin role in the users table; for any
\* other authenticated caller it answers 403 and the review stays.
C8_DeleteByOwnerOrAdmin ==
    \A p \in Procs :
       (/\ Answered(p) /\ req[p].op = "deleteReview" /\ loc[p].alone
        /\ Target(p) # {})
       => IF OwnedBy(Target(p), req[p].caller) \/ HasAdminRole(req[p].caller)
          THEN /\ res[p].status = 200
               /\ Related(committed, "deleteReview", req[p].id) = NoRows
          ELSE /\ res[p] = Response(403, "You can only delete your own reviews")
               /\ Related(committed, "deleteReview", req[p].id) = loc[p].snap

IntegerRating(rating) ==
    rating.kind = "num" /\ rating.h % 2 = 0 /\ rating.h \div 2 \in 1..5

\* C9: every stored rating is an integer from 1 to 5, and a createReview, or
\* an updateReview by the review's owner, whose rating is not such an
\* integer answers 400 and writes nothing.
C9_RatingValidated ==
    /\ \A r \in committed.reviews : r.rating \in 1..5
    /\ \A p \in Procs :
          (/\ Answered(p) /\ ~IntegerRating(req[p].rating) /\ loc[p].alone
           /\ \/ req[p].op = "createReview"
              \/ req[p].op = "updateReview" /\ OwnedBy(Target(p), req[p].caller))
          => /\ res[p].status = 400
             /\ loc[p].insertId = 0
             /\ Related(committed, req[p].op, req[p].id) = loc[p].snap


\* --------------------------------------------------- the admin book routes
\* The demo books, one review and, where the table exists, one wishlist row.
InitBooks ==
    /\ InitCommon
    /\ wishlistExists \in BOOLEAN
    /\ txnPreparable \in BOOLEAN
    /\ committed = [users |-> SeedUsers, books |-> SeedBooks,
                    reviews |-> {ReviewRow(1, 2, 1, 4)},
                    wishlist |-> IF wishlistExists THEN {WishRow(2, 1)} ELSE {}]
    /\ nextId = [reviews |-> 2, books |-> NumBooks + 1, users |-> NumUsers + 1]
    /\ faultBudget = 0

\* No token, a bad token, the admin's token, a user's token, and the token
\* of an account that is gone.
Callers == {<<"none", 0>>, <<"invalid", 0>>, <<"valid", 1>>, <<"valid", 2>>,
            <<"valid", NumUsers + 1>>}

BookRequests ==
    {BookRequest("createBook", a[1], a[2], 0, "title", i) :
        a \in Callers, i \in {NoIsbn, Isbn(1, FALSE), Isbn(NumBooks + 1, FALSE)}}
    \cup {BookRequest("updateBook", a[1], a[2], 1, "title", NoIsbn) : a \in Callers}
    \cup {BookRequest("updateBook", "valid", 1, 1, "title", Isbn(NumBooks + 1, FALSE))}
    \cup {Request("deleteBook", a[1], a[2], 1) : a \in Callers}

StartBooks(p) ==
    /\ nextId.books <= MaxBookId
    /\ Start(p, BookRequests, MaxBookRequests)

NextBooks ==
    \E p \in Procs :
       \/ StartBooks(p)
       \/ RequireAdmin(p)
       \/ CreateBook_SelectIsbn(p)
       \/ CreateBook_Insert(p)
       \/ CreateBook_Fetch(p)
       \/ UpdateBook_Select(p)
       \/ UpdateBook_SelectIsbn(p)
       \/ UpdateBook_Update(p)
       \/ UpdateBook_Fetch(p)
       \/ CascadeSelect(p)
       \/ CascadeBegin(p)
       \/ CascadeDelReviews(p)
       \/ CascadeDelWishlist(p)
       \/ CascadeDelParent(p)
       \/ CascadeCommit(p)
       \/ CascadeRollback(p)

SpecBooks == InitBooks /\ [][NextBooks]_vars

BookWrites == {"createBook", "updateBook", "deleteBook"}
HoldsAdminRole(r) == r.auth = "valid" /\ HasAdminRole(r.caller)
MiddlewareRejections ==
    {Response(401, "Access token required"), Response(403, "Invalid token"),
     Response(403, "Admin access required"), Response(404, "User not found")}

\* C10: a step that changes the books table belongs to a createBook,
\* updateBook or deleteBook of a caller with the admin role; such a request
\* of any other caller is answered by the middleware (401, 403 or 404), its
\* handler never starts and no step of it changes a table.
C10_BooksChangedOnlyByAdmin ==
    [][/\ committed'.books # committed.books
          => \E p \in Procs :
                /\ pc'[p] # pc[p]
                /\ req[p].op \in BookWrites /\ HoldsAdminRole(req[p])
       /\ \A p \in Procs :
             (/\ pc'[p] # pc[p] \/ req'[p] # req[p]
              /\ req'[p].op \in BookWrites /\ ~HoldsAdminRole(req'[p]))
             => /\ committed' = committed /\ conn' = conn
                /\ pc'[p] \in {"done", "requireAdmin"}
                /\ pc'[p] = "done" => res'[p] \in MiddlewareRejections]_vars

\* A user without the admin role was refused by requireAdmin, and the admin
\* has added a book.
C10_Witness ==
    /\ \E p \in Procs :
          /\ Answered(p) /\ req[p].op \in BookWrites
          /\ req[p].auth = "valid" /\ req[p].caller = 2
          /\ res[p] = Response(403, "Admin access required")
    /\ \E b \in committed.books : b.id = NumBooks + 1

\* ------------------------------------------------- the admin user routes
\* Users 1 and 2 are admins; there is a wishlist table or not.
InitAdmin ==
    /\ InitCommon
    /\ wishlistExists \in BOOLEAN
    /\ txnPreparable \in BOOLEAN
    /\ committed = [users |-> {UserRow(u, IF u <= 2 THEN "admin" ELSE "user") :
                                  u \in UserIds},
                    books |-> SeedBooks, reviews |-> {ReviewRow(1, 1, 1, 4)},
                    wishlist |-> {}]
    /\ nextId = [reviews |-> 2, books |-> NumBooks + 1, users |-> NumUsers + 1]
    /\ faultBudget = 0

\* A request naming user id; lead is what parseInt() makes of the parameter.
UserRequest(op, caller, id, lead, role) ==
    [IdleReq EXCEPT !.op = op, !.auth = "valid", !.caller = caller, !.id = id,
                    !.lead = lead, !.role = role]

\* Admin 1 names itself as '1' and as '0.1e1', and user 3 as '3'; admin 2
\* names admin 1.
AdminRequests ==
    {UserRequest(op, 1, t[1], t[2], "user") :
        op \in {"updateUserRole", "deleteUser"}, t \in {<<1, 1>>, <<1, 0>>, <<3, 3>>}}
    \cup {UserRequest("updateUserRole", 1, 3, 3, "admin"),
          UserRequest("updateUserRole", 2, 1, 1, "user"),
          UserRequest("updateUserRole", 1, 3, 3, "owner")}

StartAdmin(p) == Start(p, AdminRequests, MaxAdminRequests)

NextAdmin ==
    \E p \in Procs :
       \/ StartAdmin(p)
       \/ RequireAdmin(p)
       \/ UpdateUserRole_Update(p)
       \/ CascadeSelect(p)
       \/ CascadeBegin(p)
       \/ CascadeDelReviews(p)
       \/ CascadeDelWishlist(p)
       \/ CascadeDelParent(p)
       \/ CascadeCommit(p)
       \/ CascadeRollback(p)

SpecAdmin == InitAdmin /\ [][NextAdmin]_vars

\* C11: an updateUserRole or deleteUser whose target is the caller's own
\* account is answered with an error, and the caller's row in the users
\* table is as it was when the request arrived.
C11_SelfProtection ==
    \A p \in Procs :
       (/\ Answered(p) /\ req[p].op \in {"updateUserRole", "deleteUser"}
        /\ req[p].auth = "valid" /\ req[p].id = req[p].caller)
       => /\ res[p].status >= 400
          /\ loc[p].alone
             => {u \in committed.users : u.id = req[p].caller} = loc[p].snap.users

\* ------------------------------------------------------ the account routes
\* Accounts 1 (user), 2 (admin) and 10 (user), each with its own username
\* and e-mail address; the demo accounts are not there yet.
AccountIds == {1, 2, 10}
InitAccount ==
    /\ InitCommon
    /\ wishlistExists = FALSE
    /\ txnPreparable = FALSE
    /\ committed = [users |-> {UserRow(u, IF u = 2 THEN "admin" ELSE "user") :
                                  u \in AccountIds},
                    books |-> SeedBooks, reviews |-> {}, wishlist |-> {}]
    /\ nextId = [reviews |-> 1, books |-> NumBooks + 1, users |-> 11]
    /\ faultBudget = 0

EditRequest(op, caller, id, lead, username, email) ==
    [IdleReq EXCEPT !.op = op, !.auth = "valid", !.caller = caller, !.id = id,
                    !.lead = lead, !.username = username, !.email = email]
RegisterRequest(username, email, role) ==
    [IdleReq EXCEPT !.op = "register", !.username = username, !.email = email,
                    !.role = role]
DemoLoginRequest(userType) ==
    [IdleReq EXCEPT !.op = "demoLogin", !.userType = userType]

\* PUT /api/users/:id by the owner ('1'), by another user ('1' sent by 10),
\* by the admin, and by user 1 with the parameter '1e1'; PUT /api/users/profile;
\* POST /api/auth/register and /api/auth/demo-login. The names are new (5,
\* 6, 7), held by another account (1, 10) or those of the demo admin (20).
AccountRequests ==
    {EditRequest("updateUser", 1, 1, 1, Name(5, FALSE), Name(5, FALSE)),
     EditRequest("updateUser", 1, 1, 1, Name(10, TRUE), Name(6, FALSE)),
     EditRequest("updateUser", 1, 10, 1, Name(5, FALSE), Name(5, FALSE)),
     EditRequest("updateUser", 10, 1, 1, Name(6, FALSE), Name(6, FALSE)),
     EditRequest("updateUser", 2, 10, 10, Name(5, TRUE), Name(7, FALSE)),
     EditRequest("updateUser", 2, 3, 3, Name(5, FALSE), Name(5, FALSE)),
     EditRequest("updateUser", 1, 1, 1, NoName, Name(5, FALSE)),
     EditRequest("updateUser", 1, NonNumeric, NonNumeric, Name(5, FALSE), Name(5, FALSE)),
     EditRequest("updateUserProfile", 10, 0, 0, Name(5, FALSE), Name(6, FALSE)),
     EditRequest("updateUserProfile", 1, 0, 0, Name(6, FALSE), Name(10, TRUE)),
     EditRequest("updateUserProfile", 1, 0, 0, Name(6, FALSE), NoName),
     RegisterRequest(Name(5, FALSE), Name(5, FALSE), "user"),
     RegisterRequest(Name(20, FALSE), Name(7, FALSE), "admin"),
     RegisterRequest(Name(1, TRUE), Name(6, FALSE), "user"),
     RegisterRequest(NoName, Name(6, FALSE), "user"),
     DemoLoginRequest("admin"), DemoLoginRequest("user"), DemoLoginRequest("guest")}

StartAccount(p) == Start(p, AccountRequests, MaxAccountRequests)

NextAccount ==
    \E p \in Procs :
       \/ StartAccount(p)
       \/ Register_Insert(p)
       \/ DemoLogin_Select(p)
       \/ DemoLogin_Insert(p)
       \/ UpdateUser_Role(p)
       \/ UpdateUser_Exists(p)
       \/ UpdateUser_DupEmail(p)
       \/ UpdateUser_DupUsername(p)
       \/ UpdateUser_Update(p)
       \/ UpdateUser_Fetch(p)

SpecAccount == InitAccount /\ [][NextAccount]_vars

\* C12: an updateUser request with a well-formed id and body, sent by a
\* caller who is neither the account named by the id nor an admin, is
\* answered 403 and leaves the users table as it was.
C12_UpdateUserByOwnerOrAdmin ==
    \A p \in Procs :
       (/\ Answered(p) /\ req[p].op = "updateUser" /\ req[p].auth = "valid"
        /\ ~IsNaN(req[p].id)
        /\ ~NoString(req[p].username) /\ ~NoString(req[p].email)
        /\ req[p].id # req[p].caller
        /\ ~HasAdminRole(req[p].caller))
       => /\ res[p].status = 403
          /\ loc[p].alone => committed.users = loc[p].snap.users

\* C13: no two accounts share a username or an e-mail address, and a
\* register, demoLogin, updateUser or updateUserProfile request whose
\* statement the unique keys refuse is answered 400 and changes no row.
AccountOps == {"register", "demoLogin", "updateUser", "updateUserProfile"}
C13_UniqueAccounts ==
    /\ \A u, v \in committed.users :
          u.id # v.id =>
             ~SameName(u.username, v.username) /\ ~SameName(u.email, v.email)
    /\ \A p \in Procs :
          (Answered(p) /\ req[p].op \in AccountOps /\ loc[p].err = "ER_DUP_ENTRY")
          => /\ res[p].status = 400
             /\ loc[p].alone => committed.users = loc[p].snap.users

\* ------------------------------------------- createBook and updateBook
\* The demo books 1..NumBooks, each with its ISBN; the admin is the caller.
InitCatalog ==
    /\ InitCommon
    /\ wishlistExists = FALSE
    /\ txnPreparable = FALSE
    /\ committed = [users |-> SeedUsers, books |-> SeedBooks, reviews |-> {},
                    wishlist |-> {}]
    /\ nextId = [reviews |-> 1, books |-> NumBooks + 1, users |-> NumUsers + 1]
    /\ faultBudget = 0

CatalogRequest(op, id, title, isbn, published_date, cover_image) ==
    [IdleReq EXCEPT !.op = op, !.auth = "valid", !.caller = 1, !.id = id,
                    !.lead = id, !.title = title, !.author = "author",
                    !.isbn = isbn, !.published_date = published_date,
                    !.cover_image = cover_image]

\* Bodies that pass every check, and bodies that fail one: a missing or
\* blank title, an isbn that is no ISBN, the isbn of another book (as
\* stored, surrounded by blanks, or hyphenated), a bad date, a bad cover.
CatalogRequests ==
    LET new == Isbn(NumBooks + 1, FALSE)
    IN  {CatalogRequest("createBook", 0, "title", i, "valid", "image") :
            i \in {NoIsbn, new, BadIsbn, Isbn(1, FALSE), PaddedIsbn(1, FALSE),
                   Isbn(1, TRUE)}}
        \cup {CatalogRequest("createBook", 0, t, new, "none", "none") : t \in {"", " "}}
        \cup {CatalogRequest("createBook", 0, "title", i, d, "none") :
                 i \in {NoIsbn, new}, d \in {"unparsable", "future"}}
        \cup {CatalogRequest("createBook", 0, "title", i, "none", v) :
                 i \in {NoIsbn, new}, v \in {"text", "page"}}
        \cup {CatalogRequest("updateBook", 1, "changed", i, "none", "none") :
                 i \in {NoIsbn, new, BadIsbn, Isbn(1, FALSE), Isbn(2, FALSE),
                        PaddedIsbn(2, FALSE)}}
        \cup {CatalogRequest("updateBook", 1, t, Isbn(1, FALSE), "none", "none") :
                 t \in {"", " "}}
        \cup {CatalogRequest("updateBook", 1, "changed", Isbn(1, FALSE), "future", "none"),
              CatalogRequest("updateBook", 1, "changed", new, "none", "page"),
              CatalogRequest("updateBook", NumBooks + 1, " ", NoIsbn, "none", "none"),
              CatalogRequest("updateBook", NonNumeric, "changed", NoIsbn, "none", "none")}

StartCatalog(p) == Start(p, CatalogRequests, MaxCatalogRequests)

NextCatalog ==
    \E p \in Procs :
       \/ StartCatalog(p)
       \/ RequireAdmin(p)
       \/ CreateBook_SelectIsbn(p)
       \/ CreateBook_Insert(p)
       \/ CreateBook_Fetch(p)
       \/ UpdateBook_Select(p)
       \/ UpdateBook_SelectIsbn(p)
       \/ UpdateBook_Update(p)
       \/ UpdateBook_Fetch(p)

SpecCatalog == InitCatalog /\ [][NextCatalog]_vars

\* The book a createBook or updateBook request writes (0: a new one).
EditedBook(r) == IF r.op = "updateBook" THEN r.id ELSE 0

\* The digits of the isbn are those of a book of rows other than the edited.
HeldByAnother(r, rows) ==
    /\ r.isbn.kind = "digits"
    /\ \E b \in rows :
          b.id # EditedBook(r) /\ b.isbn.kind = "digits" /\ b.isbn.n = r.isbn.n

\* C14: every stored ISBN is 10 or 13 digits once hyphens and blanks are
\* removed, no two books hold the same ISBN, and a createBook or updateBook
\* whose ISBN another book held when it arrived is answered with an error
\* and leaves the books table as it was.
C14_IsbnUniqueWellFormed ==
    /\ \A b \in committed.books : b.isbn.kind \in {"none", "digits"}
    /\ \A a, b \in committed.books :
          (a.id # b.id /\ a.isbn.kind = "digits" /\ b.isbn.kind = "digits")
          => a.isbn.n # b.isbn.n
    /\ \A p \in Procs :
          (/\ Answered(p) /\ req[p].op \in {"createBook", "updateBook"}
           /\ loc[p].alone /\ HeldByAnother(req[p], loc[p].snap.books))
          => res[p].status >= 400 /\ committed.books = loc[p].snap.books

\* A title or author that is missing or blank, an isbn that is no ISBN, a
\* date that cannot be read or lies ahead, a cover that is no image URL.
FailsValidation(r) ==
    \/ Trim(r.title) = "" \/ Trim(r.author) = ""
    \/ r.isbn.kind = "bad"
    \/ ~PublishedDateOk(r.published_date)
    \/ r.cover_image \in {"text", "page"}

\* The trimmed isbn is stored with another book of rows.
Collides(r, rows) ==
    /\ r.isbn.kind # "none"
    /\ \E b \in rows : b.id # EditedBook(r) /\ b.isbn = TrimIsbn(r.isbn)

\* C15: no step of a createBook or updateBook whose body fails validation
\* writes to the store; such a request, and one whose isbn collides with
\* another book's, is answered 400 with the books as they were (for
\* updateBook: of a book that is there).
C15_NoWriteOnFailedValidation ==
    /\ [](\A p \in Procs :
            (/\ Answered(p) /\ req[p].op \in {"createBook", "updateBook"}
             /\ loc[p].isAdmin /\ ~IsNaN(req[p].id)
             /\ loc[p].alone
             /\ FailsValidation(req[p]) \/ Collides(req[p], loc[p].snap.books)
             /\ req[p].op = "updateBook"
                => \E b \in loc[p].snap.books : b.id = req[p].id)
            => /\ res[p].status = 400
               /\ committed.books = loc[p].snap.books)
    /\ [][\A p \in Procs :
            (/\ pc'[p] # pc[p]
             /\ req[p].op \in {"createBook", "updateBook"}
             /\ FailsValidation(req[p]))
            => committed' = committed /\ conn' = conn]_vars

\* ------------------------------------------------------------ the listings
\* A catalogue of three books: the two of one insert loop share their
\* creation second, two are editions with one title and author. Book 1 has
\* one review, book 3 two, book 2 none.
ListedBook(id, title, author, genre, created_at, published_date) ==
    [id |-> id, title |-> title, isbn |-> Isbn(id, FALSE), author |-> author,
     description |-> "", genre |-> genre, created_at |-> created_at,
     published_date |-> published_date]
Catalogue ==
    {ListedBook(1, "dune", "herbert", "scifi", 1, 2),
     ListedBook(2, "emma", "austen", "classic", 1, 1),
     ListedBook(3, "emma", "austen", "classic", 2, 3)}
InitListing ==
    /\ InitCommon
    /\ wishlistExists = FALSE
    /\ txnPreparable = FALSE
    /\ committed = [users |-> SeedUsers, books |-> Catalogue,
                    reviews |-> {ReviewRow(1, 1, 1, 4), ReviewRow(2, 1, 3, 4),
                                 ReviewRow(3, 2, 3, 2)},
                    wishlist |-> {}]
    /\ nextId = [reviews |-> 4, books |-> 4, users |-> NumUsers + 1]
    /\ faultBudget = 0

ListRequest(op, page, limit, sortBy, sortOrder, q, genre) ==
    [IdleReq EXCEPT !.op = op, !.page = page, !.limit = limit, !.sortBy = sortBy,
                    !.sortOrder = sortOrder, !.q = q, !.genre = genre]

\* GET /api/books with every kind of page and limit value, and with sort
\* keys and directions in and outside the lists, with and without filters.
PageValues == {Absent, Words, IntText(0 - 1), IntText(0), IntText(1), IntText(2),
               IntText(3)}
LimitValues == {Absent, Words, IntText(0 - 1), IntText(0), IntText(1), IntText(2),
                IntText(101)}
ListingRequests ==
    {ListRequest("getBooks", pg, lm, "", "", "", "") :
        pg \in PageValues, lm \in LimitValues}
    \cup {ListRequest("getBooks", IntText(pg), IntText(2), by, dir, "", "") :
             pg \in 1..2,
             by \in {"title", "average_rating", "review_count", "price"},
             dir \in {"", "ASC", "asc", "sideways"}}
    \cup {ListRequest("getBooks", IntText(pg), IntText(1), "", "", q, g) :
             pg \in 1..2, q \in {"", "e", "un"}, g \in {"", "classic"}}

StartListing(p) == Start(p, ListingRequests, MaxListingRequests)

NextListing ==
    \E p \in Procs :
       \/ StartListing(p)
       \/ GetBooks_Page(p)
       \/ GetBooks_Count(p)

SpecListing == InitListing /\ [][NextListing]_vars

BookById(id) == CHOOSE b \in committed.books : b.id = id
Listed(p) == Answered(p) /\ res[p].status = 200
SameListing(r1, r2) == [r1 EXCEPT !.page = Absent] = [r2 EXCEPT !.page = Absent]

\* C16: a getBooks request with a page and a limit of at least 1 and a
\* sort key of the allow-list is answered with its page; page k of
\* totalPages holds min(limit, total - (k-1)*limit) matching books, none
\* twice, and two different pages of one listing share no book.
C16_PagesPartitionTheListing ==
    /\ \A p \in Procs :
          (/\ Answered(p) /\ req[p].op = "getBooks"
           /\ PageUsed(req[p]) >= 1 /\ LimitUsed(req[p]) >= 1
           /\ req[p].sortBy \in ValidSortFields \cup {""})
          => /\ res[p].status = 200
             /\ LET b == res[p].books
                    g == res[p].pagination
                    rest == g.total - (g.page - 1) * g.limit
                IN  /\ g.page <= g.totalPages
                       => Len(b) = IF rest < g.limit THEN rest ELSE g.limit
                    /\ \A i, j \in 1..Len(b) : i # j => b[i] # b[j]
                    /\ \A i \in 1..Len(b) :
                          Where(BookById(b[i]), GetBooksConds(req[p]),
                                GetBooksParams(req[p]))
    /\ \A p, o \in Procs :
          (/\ Listed(p) /\ Listed(o)
           /\ req[p].op = "getBooks" /\ SameListing(req[p], req[o])
           /\ PageUsed(req[p]) # PageUsed(req[o]))
          => \A i \in 1..Len(res[p].books), j \in 1..Len(res[o].books) :
                res[p].books[i] # res[o].books[j]

\* C19: the page query of a listing is sent with a page of at least 1, a
\* limit from 1 to 100 and an offset of at least 0, whatever the page and
\* limit values of the request.
C19_PageAndLimitBounded ==
    \A p \in Procs :
       pc[p] = "lb_page"
       => /\ PageUsed(req[p]) >= 1
          /\ LimitUsed(req[p]) \in 1..100
          /\ OffsetUsed(req[p]) >= 0

\* The answer of p is the page that ORDER BY key DESC gives its request.
PageOfDescending(p, key) ==
    \E s \in Orderings({b \in committed.books :
                           Where(b, GetBooksConds(req[p]), GetBooksParams(req[p]))},
                       committed.reviews, <<<<key, "DESC", FALSE>>>>) :
       LET page == LimitOffset(s, LimitUsed(req[p]), OffsetUsed(req[p]))
       IN  res[p].books = [i \in 1..Len(page) |-> page[i].id]

\* C20: a getBooks request with a sortBy outside the allow-list is answered
\* with the page of the listing by creation time, descending, whatever its
\* sortOrder; a request with a sortOrder other than ASC or DESC with the
\* page of the listing by its sort key, descending.
C20_SortFallback ==
    \A p \in Procs :
       (Listed(p) /\ req[p].op = "getBooks")
       => /\ (req[p].sortBy # "" /\ req[p].sortBy \notin ValidSortFields)
             => PageOfDescending(p, "created_at")
          /\ (req[p].sortOrder # "" /\ ToUpperCase(req[p].sortOrder) \notin {"ASC", "DESC"})
             => PageOfDescending(p, ValidSortBy(req[p]))

\* --------------------------------------------------- the three listings
SearchRequest(op, page, limit, sortBy, q, genre, author, minRating, maxRating) ==
    [IdleReq EXCEPT !.op = op, !.page = page, !.limit = limit, !.sortBy = sortBy,
                    !.q = q, !.genre = genre, !.author = author,
                    !.minRating = minRating, !.maxRating = maxRating]

\* GET /api/books/search with every combination of q, genre and author,
\* with and without a rating range, and in every order; GET
\* /api/books/author/:author; GET /api/books.
SearchRequests ==
    {SearchRequest("searchBooks", IntText(1), IntText(2), "", q, g, a, lo, hi) :
        q \in {"", "e"}, g \in {"", "classic"}, a \in {"", "austen"},
        lo \in {Absent, IntText(3)}, hi \in {Absent, IntText(3)}}
    \cup {SearchRequest("searchBooks", IntText(pg), IntText(1), by, "", "classic", "",
                        Absent, Absent) :
             pg \in 1..2, by \in {"title", "author", "rating", "newest", "oldest"}}
    \cup {SearchRequest("getBooksByAuthor", pg, lm, "", "", "", a, Absent, Absent) :
             pg \in {Absent, IntText(2)}, lm \in {Absent, IntText(1)},
             a \in {"austen", "e", " ", "tolkien"}}
    \cup {SearchRequest("getBooks", pg, IntText(2), "", q, g, "", Absent, Absent) :
             pg \in {Absent, IntText(2)}, q \in {"", "e"}, g \in {"", "classic"}}

StartSearch(p) == Start(p, SearchRequests, MaxSearchRequests)

NextSearch ==
    \E p \in Procs :
       \/ StartSearch(p)
       \/ GetBooks_Page(p)
       \/ GetBooks_Count(p)
       \/ GetBooksByAuthor_Page(p)
       \/ GetBooksByAuthor_Count(p)
       \/ SearchBooks_Page(p)
       \/ SearchBooks_Count(p)

SpecSearch == InitListing /\ [][NextSearch]_vars

\* The books that pass every filter of a listing request.
Filtered(r) ==
    {b \in committed.books :
        CASE r.op = "getBooks" -> Where(b, GetBooksConds(r), GetBooksParams(r))
          [] r.op = "getBooksByAuthor" -> Like(b.author, r.author)
          [] OTHER -> /\ Where(b, SearchConds(r), SearchWhereParams(r))
                      /\ Having(b, committed.reviews, r)}

\* C17: the answer of every listing reports as total the number of books
\* that pass its filters, as totalPages the least number of pages of limit
\* rows that hold them, hasNext = (page < totalPages) and hasPrev =
\* (page > 1).
C17_PaginationMetadata ==
    \A p \in Procs :
       (Listed(p) /\ req[p].op \in {"getBooks", "getBooksByAuthor", "searchBooks"})
       => LET g == res[p].pagination
          IN  /\ g.total = Cardinality(Filtered(req[p]))
              /\ g.totalPages * g.limit >= g.total
              /\ (g.totalPages - 1) * g.limit < g.total \/ g.totalPages = 0
              /\ g.hasNext = (g.page < g.totalPages)
              /\ g.hasPrev = (g.page > 1)

\* C18: the total a searchBooks answer reports is the number of books that
\* pass all its filters, the range on the average rating included.
C18_SearchTotalCountsRatingFilter ==
    \A p \in Procs :
       (Listed(p) /\ req[p].op = "searchBooks")
       => res[p].pagination.total = Cardinality(Filtered(req[p]))

\* ------------------------------------------------- the listing's sort keys
MaxSortRequests == 2

\* GET /api/books with each sort key of the allow-list in each direction,
\* two books to the page.
SortRequests ==
    {ListRequest("getBooks", IntText(pg), IntText(2), by, dir, "", "") :
        pg \in 1..2, by \in ValidSortFields, dir \in {"ASC", "DESC", "asc"}}

StartSort(p) == Start(p, SortRequests, MaxSortRequests)

NextSort ==
    \E p \in Procs :
       \/ StartSort(p)
       \/ GetBooks_Page(p)
       \/ GetBooks_Count(p)

SpecSort == InitListing /\ [][NextSort]_vars

\* C21: a getBooks request whose sortBy is one of the six allow-listed keys
\* and whose sortOrder is ASC or DESC (in any case) is answered 200 with a
\* page in which no book precedes one that the key, taken in that
\* direction, puts before it; average_rating and review_count are the
\* aggregates over the book's reviews.
C21_SortKeysOrdered ==
    \A p \in Procs :
       (/\ Answered(p)
        /\ req[p].op = "getBooks"
        /\ req[p].sortBy \in ValidSortFields
        /\ ToUpperCase(req[p].sortOrder) \in {"ASC", "DESC"})
       => /\ res[p].status = 200
          /\ \A i, j \in 1..Len(res[p].books) :
                i < j => CompareBy(BookById(res[p].books[i]), BookById(res[p].books[j]),
                                   committed.reviews, req[p].sortBy,
                                   ToUpperCase(req[p].sortOrder)) <= 0


\* ---------------------------------------------- the review statistics
MaxStatsRequests == 3

\* Book 1 with no review, one review, or three reviews with three ratings.
InitStats ==
    /\ InitCommon
    /\ wishlistExists = FALSE
    /\ txnPreparable = FALSE
    /\ \E rs \in {{}, {ReviewRow(1, 1, 1, 4)},
                  {ReviewRow(1, 1, 1, 5), ReviewRow(2, 2, 1, 4), ReviewRow(3, 3, 1, 3)}} :
          /\ committed = [users |-> SeedUsers, books |-> SeedBooks, reviews |-> rs,
                          wishlist |-> {}]
          /\ nextId = [reviews |-> Cardinality(rs) + 1, books |-> NumBooks + 1,
                       users |-> NumUsers + 1]
    /\ faultBudget = 0

\* The summary of a book with reviews, of one without and of none, the
\* statistics for the admin, and reviews written and deleted meanwhile.
StatsRequests ==
    {Request("getBookReviewSummary", "none", 0, id) :
        id \in {1, 2, NumBooks + 1, NonNumeric}}
    \cup {Request("getReviewStats", "valid", u, 0) : u \in {1, 2}}
    \cup {ReviewRequest("createReview", 3, 0, 1, Num(6))}
    \cup {ReviewRequest("deleteReview", 1, 1, 0, NoRating)}

StartStats(p) ==
    /\ nextId.reviews <= MaxReviewId + 1
    /\ Start(p, StatsRequests, MaxStatsRequests)

NextStats ==
    \E p \in Procs :
       \/ StartStats(p)
       \/ RequireAdmin(p)
       \/ Summary_SelectBook(p)
       \/ Summary_Stats(p)
       \/ Summary_Distribution(p)
       \/ Summary_Recent(p)
       \/ Stats_Total(p)
       \/ Stats_Average(p)
       \/ Stats_Distribution(p)
       \/ Stats_TopReviewers(p)
       \/ Stats_Recent(p)
       \/ CreateReview_SelectBook(p)
       \/ CreateReview_SelectExisting(p)
       \/ CreateReview_Insert(p)
       \/ CreateReview_Fetch(p)
       \/ DeleteReview_Select(p)
       \/ DeleteReview_Role(p)
       \/ DeleteReview_Delete(p)

SpecStats == InitStats /\ [][NextStats]_vars

RECURSIVE SumOfPercentages(_)
SumOfPercentages(dist) ==
    IF dist = <<>> THEN 0
    ELSE dist[1].percentage.n + SumOfPercentages(Tail(dist))

\* C22: a summary that reports at least one review has percentages that are
\* numbers and sum to 100 within half a tenth per histogram row; a summary
\* that reports no review has no percentage other than 0 and an average,
\* minimum and maximum rating of 0.
C22_SummaryPercentages ==
    \A p \in Procs :
       (Listed(p) /\ req[p].op = "getBookReviewSummary")
       => LET d == res[p].ratingDistribution
              s == SumOfPercentages(d)
          IN  IF res[p].totalReviews > 0
              THEN /\ \A i \in 1..Len(d) : d[i].percentage.kind = "number"
                   /\ 2 * (s - 1000) <= Len(d)
                   /\ 2 * (1000 - s) <= Len(d)
              ELSE /\ \A i \in 1..Len(d) : IsZero(d[i].percentage)
                   /\ IsZero(res[p].averageRating)
                   /\ res[p].minRating = 0
                   /\ res[p].maxRating = 0

\* C23: getReviewStats answers a request behind requireAdmin with status
\* 200 when no statement fails, and when it reports no review at all it
\* reports an average of 0.00 and no percentage other than 0.
C23_StatsNeverDivideByZero ==
    \A p \in Procs :
       (Answered(p) /\ req[p].op = "getReviewStats" /\ loc[p].isAdmin)
       => /\ res[p].status = 200
          /\ res[p].totalReviews = 0
             => /\ IsZero(res[p].averageRating)
                /\ \A i \in 1..Len(res[p].ratingDistribution) :
                      IsZero(res[p].ratingDistribution[i].percentage)


\* ------------------------------------------------------ the id parameters
MaxIdRequests == 2

\* The handlers that take an entity id as path parameter.
IdOps == {"getBookById", "updateBook", "deleteBook", "getRelatedBooks",
          "getBookReviewSummary", "updateReview", "deleteReview", "getUserById",
          "updateUser", "updateUserRole", "deleteUser"}

\* An id that no user, book or review has.
NoSuchId == NumUsers + NumBooks + MaxReviewId + 1

InitIds ==
    /\ InitCommon
    /\ wishlistExists = TRUE
    /\ txnPreparable = TRUE
    /\ committed = [users |-> SeedUsers, books |-> Catalogue,
                    reviews |-> {ReviewRow(1, 1, 1, 4), ReviewRow(2, 1, 3, 4),
                                 ReviewRow(3, 2, 3, 2)},
                    wishlist |-> {}]
    /\ nextId = [reviews |-> 4, books |-> 4, users |-> NumUsers + 1]
    /\ faultBudget = 0

\* Each handler called by the admin (user 1, who wrote review 1) with a
\* well-formed body and a path id that is not numeric, one that refers to
\* no row, and one that refers to a row.
IdRequest(op, id) ==
    [IdleReq EXCEPT !.op = op, !.auth = "valid", !.caller = 1, !.id = id, !.lead = id,
                    !.title = "title", !.author = "author", !.rating = Num(6),
                    !.role = "user", !.username = Name(7, FALSE),
                    !.email = Name(7, FALSE)]
IdRequests ==
    {IdRequest(op, id) : op \in IdOps, id \in {NonNumeric, NoSuchId, 1, 2}}
    \cup {[IdRequest("updateBook", 1) EXCEPT !.isbn = Isbn(7, FALSE)]}

StartIds(p) == Start(p, IdRequests, MaxIdRequests)

NextIds ==
    \E p \in Procs :
       \/ StartIds(p)
       \/ RequireAdmin(p)
       \/ GetBookById(p)
       \/ UpdateBook_Select(p)
       \/ UpdateBook_SelectIsbn(p)
       \/ UpdateBook_Update(p)
       \/ UpdateBook_Fetch(p)
       \/ CascadeSelect(p)
       \/ CascadeBegin(p)
       \/ CascadeDelReviews(p)
       \/ CascadeDelWishlist(p)
       \/ CascadeDelParent(p)
       \/ CascadeCommit(p)
       \/ CascadeRollback(p)
       \/ Related_Select(p)
       \/ Related_Books(p)
       \/ Summary_SelectBook(p)
       \/ Summary_Stats(p)
       \/ Summary_Distribution(p)
       \/ Summary_Recent(p)
       \/ UpdateReview_Select(p)
       \/ UpdateReview_Update(p)
       \/ UpdateReview_Fetch(p)
       \/ DeleteReview_Select(p)
       \/ DeleteReview_Role(p)
       \/ DeleteReview_Delete(p)
       \/ GetUserById_Select(p)
       \/ GetUserById_Stats(p)
       \/ GetUserById_Recent(p)
       \/ UpdateUser_Role(p)
       \/ UpdateUser_Exists(p)
       \/ UpdateUser_DupEmail(p)
       \/ UpdateUser_DupUsername(p)
       \/ UpdateUser_Update(p)
       \/ UpdateUser_Fetch(p)
       \/ UpdateUserRole_Update(p)

SpecIds == InitIds /\ [][NextIds]_vars

\* C24: a request of the admin to a handler with an id path parameter is
\* answered 400 when the id is not numeric and 404 when the id refers to no
\* row, and no step of such a request changes the store.
C24_IdsValidated ==
    /\ [](\A p \in Procs :
            (Answered(p) /\ req[p].op \in IdOps /\ loc[p].alone)
            => /\ IsNaN(req[p].id) => res[p].status = 400
               /\ req[p].id = NoSuchId => res[p].status = 404)
    /\ [][\A p \in Procs :
            (/\ pc'[p] # pc[p]
             /\ req[p].op \in IdOps
             /\ IsNaN(req[p].id) \/ req[p].id = NoSuchId)
            => committed' = committed /\ conn' = conn]_vars


\* ------------------------------------------------- failing statements
MaxFaultRequests == 2

\* The store of InitCascade on a server that takes START TRANSACTION, with
\* or without a wishlist table; the environment fails up to MaxFaults
\* statements.
InitFaults ==
    /\ InitCommon
    /\ wishlistExists \in BOOLEAN
    /\ txnPreparable = TRUE
    /\ committed = [users |-> SeedUsers, books |-> SeedBooks,
                    reviews |-> {ReviewRow(1, 2, 1, 4), ReviewRow(2, 3, 1, 5)},
                    wishlist |-> IF wishlistExists THEN {WishRow(2, 1)} ELSE {}]
    /\ nextId = [reviews |-> 3, books |-> NumBooks + 1, users |-> NumUsers + 1]
    /\ faultBudget = MaxFaults

\* One request to each handler that it serves to its last statement.
FaultRequests ==
    {IdRequest(op, 1) : op \in {"deleteBook", "getBookById", "deleteReview",
                                "getBookReviewSummary"}}
    \cup {IdRequest(op, 2) : op \in {"deleteUser", "updateUserRole", "updateUser",
                                     "getUserById"}}
    \cup {IdRequest(op, 0) : op \in {"register", "updateUserProfile", "getReviewStats"}}
    \cup {[IdRequest("createReview", 0) EXCEPT !.book_id = 2],
          [IdRequest("updateReview", 1) EXCEPT !.caller = 2],
          [IdRequest("createBook", 0) EXCEPT !.isbn = Isbn(NumBooks + 1, FALSE)],
          [IdRequest("updateBook", 1) EXCEPT !.isbn = Isbn(NumBooks + 1, FALSE)],
          [IdRequest("demoLogin", 0) EXCEPT !.userType = "user"]}

StartFaults(p) == Start(p, FaultRequests, MaxFaultRequests)

NextFaults ==
    \E p \in Procs :
       \/ StartFaults(p)
       \/ RequireAdmin(p)
       \/ GetBookById(p)
       \/ CascadeSelect(p)
       \/ CascadeBegin(p)
       \/ CascadeDelReviews(p)
       \/ CascadeDelWishlist(p)
       \/ CascadeDelParent(p)
       \/ CascadeCommit(p)
       \/ CascadeRollback(p)
       \/ CreateReview_SelectBook(p)
       \/ CreateReview_SelectExisting(p)
       \/ CreateReview_Insert(p)
       \/ CreateReview_Fetch(p)
       \/ UpdateReview_Select(p)
       \/ UpdateReview_Update(p)
       \/ UpdateReview_Fetch(p)
       \/ DeleteReview_Select(p)
       \/ DeleteReview_Role(p)
       \/ DeleteReview_Delete(p)
       \/ CreateBook_SelectIsbn(p)
       \/ CreateBook_Insert(p)
       \/ CreateBook_Fetch(p)
       \/ UpdateBook_Select(p)
       \/ UpdateBook_SelectIsbn(p)
       \/ UpdateBook_Update(p)
       \/ UpdateBook_Fetch(p)
       \/ UpdateUserRole_Update(p)
       \/ Register_Insert(p)
       \/ DemoLogin_Select(p)
       \/ DemoLogin_Insert(p)
       \/ UpdateUser_Role(p)
       \/ UpdateUser_Exists(p)
       \/ UpdateUser_DupEmail(p)
       \/ UpdateUser_DupUsername(p)
       \/ UpdateUser_Update(p)
       \/ UpdateUser_Fetch(p)
       \/ Summary_SelectBook(p)
       \/ Summary_Stats(p)
       \/ Summary_Distribution(p)
       \/ Summary_Recent(p)
       \/ Stats_Total(p)
       \/ Stats_Average(p)
       \/ Stats_Distribution(p)
       \/ Stats_TopReviewers(p)
       \/ Stats_Recent(p)
       \/ GetUserById_Select(p)
       \/ GetUserById_Stats(p)
       \/ GetUserById_Recent(p)

SpecFaults == InitFaults /\ [][NextFaults]_vars

\* What the storage engine and the runtime name their errors.
RawErrors == {"FAULT", "TypeError", "ER_BAD_FIELD_ERROR", "ER_CHECK_CONSTRAINT_VIOLATED",
              "ER_DUP_ENTRY", "ER_LOCK_WAIT_TIMEOUT", "ER_NO_REFERENCED_ROW_2",
              "ER_NO_SUCH_TABLE", "ER_TRUNCATED_WRONG_VALUE_FOR_FIELD",
              "ER_UNSUPPORTED_PS", "ER_WRONG_ARGUMENTS"}

\* C25: a handler that has ended has sent a response; when a statement of
\* it failed, a failing ROLLBACK included, the response has a status from
\* 400 to 599 and an error text that is not the engine's; and a response is
\* sent only by the step that ends the handler.
C25_OneErrorResponse ==
    /\ [](\A p \in Procs :
            Answered(p)
            => /\ res[p].status # 0
               /\ loc[p].err # "OK"
                  => /\ res[p].status \in 400..599
                     /\ res[p].error # ""
                     /\ res[p].error \notin RawErrors)
    /\ [][\A p \in Procs :
            res'[p] # res[p]
            => \/ pc[p] # "done" /\ pc'[p] = "done"
               \/ started' # started]_vars

\* A cascading delete whose ROLLBACK failed has been answered 500.
C25_Witness ==
    \E p \in Procs :
       /\ Answered(p)
       /\ req[p].op \in {"deleteBook", "deleteUser"}
       /\ loc[p].rollback = "failed"
       /\ res[p] = Response(500, "Server error")


\* ----------------------------------------------------------- registration
MaxRegisterRequests == 3

InitRegister ==
    /\ InitCommon
    /\ wishlistExists = FALSE
    /\ txnPreparable = FALSE
    /\ committed = [users |-> SeedUsers, books |-> SeedBooks, reviews |-> {},
                    wishlist |-> {}]
    /\ nextId = [reviews |-> 1, books |-> NumBooks + 1, users |-> NumUsers + 1]
    /\ faultBudget = 0

\* POST /api/auth/register without a token, with that of user 2 and with
\* that of the admin, the body's role being left out, 'user', 'admin' or
\* another text; and POST /api/books with the token a registration returns.
RegisterRequests ==
    {[RegisterRequest(Name(n, FALSE), Name(n, FALSE), role)
         EXCEPT !.auth = a[1], !.caller = a[2]] :
        n \in {5, 6}, role \in {"", "user", "admin", "root"},
        a \in {<<"none", 0>>, <<"valid", 2>>, <<"valid", 1>>}}
    \cup {BookRequest("createBook", "valid", NumUsers + 1, 0, "title",
                         Isbn(NumBooks + 1, FALSE))}

StartRegister(p) == Start(p, RegisterRequests, MaxRegisterRequests)

NextRegister ==
    \E p \in Procs :
       \/ StartRegister(p)
       \/ Register_Insert(p)
       \/ RequireAdmin(p)
       \/ CreateBook_SelectIsbn(p)
       \/ CreateBook_Insert(p)
       \/ CreateBook_Fetch(p)

SpecRegister == InitRegister /\ [][NextRegister]_vars

\* C26: the INSERT of a register request whose sender is not an admin
\* creates no account with the role admin, and every admin account is one
\* of the seeded admins or was registered by an admin; a book is created
\* for no other caller.
C26_RegisterGrantsNoAdmin ==
    /\ [][\A p \in Procs :
            (pc[p] = "rg_insert" /\ pc'[p] = "done" /\ ~HoldsAdminRole(req[p]))
            => \A u \in committed'.users \ committed.users : u.role = "user"]_vars
    /\ [](\A p \in Procs :
            (Answered(p) /\ req[p].op = "createBook" /\ res[p].status = 201)
            => req[p].caller \in {u.id : u \in {x \in SeedUsers : x.role = "admin"}})


\* C27: the count query of searchBooks and of getBooks is sent with the
\* parameters of the main query's WHERE placeholders, one for each and in
\* their order, and with no other.
C27_CountParamsMatchWhere ==
    \A p \in Procs :
       /\ pc[p] = "sb_count"
          => SearchCountParams(req[p])
             = SubSeq(SearchParams(req[p]), 1, Placeholders(SearchConds(req[p])))
       /\ pc[p] = "lb_count"
          => GetBooksCountParams(req[p])
             = SubSeq(GetBooksParams(req[p]), 1, Placeholders(GetBooksConds(req[p])))


\* ------------------------------------------------------ the last admin
MaxLastAdminRequests == 2

\* Each of the admins 1 and 2 demotes or deletes the other one, and admin 1
\* demotes and deletes user 3.
LastAdminRequests ==
    {UserRequest(op, t[1], t[2], t[2], "user") :
        op \in {"updateUserRole", "deleteUser"},
        t \in {<<1, 2>>, <<2, 1>>, <<1, 3>>}}

StartLastAdmin(p) == Start(p, LastAdminRequests, MaxLastAdminRequests)

NextLastAdmin ==
    \E p \in Procs :
       \/ StartLastAdmin(p)
       \/ RequireAdmin(p)
       \/ UpdateUserRole_Update(p)
       \/ CascadeSelect(p)
       \/ CascadeBegin(p)
       \/ CascadeDelReviews(p)
       \/ CascadeDelWishlist(p)
       \/ CascadeDelParent(p)
       \/ CascadeCommit(p)
       \/ CascadeRollback(p)

SpecLastAdmin == InitAdmin /\ [][NextLastAdmin]_vars

\* C28: the users table, which holds an admin at the start, holds at least
\* one user with the admin role after every step of updateUserRole and
\* deleteUser requests, whichever way they interleave.
C28_AnAdminRemains ==
    \E u \in committed.users : u.role = "admin"


\* ------------------------------------------------- startup and shutdown
MaxLifecycleRequests == 2

\* What every step of the process itself leaves alone.
requestVars == <<committed, conn, wishlistExists, txnPreparable, nextId, req, pc, loc,
                 res, faults, faultBudget, started>>

Running == server.status = "running"

\* process.exit(code)
Exit(s, code) == [s EXCEPT !.status = "exited", !.code = code]

\* getDB(): throws while db has not been assigned.
GetDB(db) ==
    IF db = Undefined THEN [threw |-> "Database not initialized", db |-> Undefined]
    ELSE [threw |-> "", db |-> db]

\* module.exports of the database module
Exports == {"initDatabase", "getDB"}

\* startServer's catch: console.error and process.exit(1)
StartFailed(s) == Exit([s EXCEPT !.initFailed = TRUE], 1)

\* startServer() up to initDatabase's first await: the environment is
\* validated and the pool created, then the test statement is sent.
StartServer ==
    /\ Running /\ server.build = "modular" /\ server.phase = "boot"
    /\ \E env \in BOOLEAN :
         server' = IF env THEN [server EXCEPT !.db = @ + 1, !.phase = "test"]
                   ELSE StartFailed(server)
    /\ UNCHANGED requestVars

\* SELECT 1 as test
InitDatabase_Test ==
    /\ Running /\ server.build = "modular" /\ server.phase = "test"
    /\ \E ok \in BOOLEAN :
         server' = IF ok THEN [server EXCEPT !.tested = TRUE, !.phase = "tables"]
                   ELSE StartFailed(server)
    /\ UNCHANGED requestVars

\* createTables, whose catch logs and leaves the failure unthrown.
InitDatabase_CreateTablesSwallowed ==
    /\ Running /\ server.build = "modular" /\ server.phase = "tables"
    /\ \E ok \in BOOLEAN :
         server' = [server EXCEPT !.tables = ok, !.phase = "demo"]
    /\ UNCHANGED requestVars

\* createTables: CREATE TABLE IF NOT EXISTS users, books, reviews; a failure
\* is thrown on.
InitDatabase_CreateTables ==
    /\ Running /\ server.build = "modular" /\ server.phase = "tables"
    /\ \E ok \in BOOLEAN :
         server' = IF ok THEN [server EXCEPT !.tables = TRUE, !.phase = "demo"]
                   ELSE StartFailed(server)
    /\ UNCHANGED requestVars

\* insertDemoData, which throws nothing; initDatabase returns and startServer
\* calls app.listen.
InitDatabase_DemoData ==
    /\ Running /\ server.build = "modular" /\ server.phase = "demo"
    /\ server' = [server EXCEPT !.listening = TRUE, !.phase = "serving"]
    /\ UNCHANGED requestVars

Signals == {"SIGINT", "SIGTERM"}

\* gracefulShutdown(signal) of the modular server: closeDatabase is taken
\* from the database module, which does not export it; calling it throws,
\* the promise of gracefulShutdown is rejected with nobody waiting for it,
\* and the unhandledRejection handler calls process.exit(1).
GracefulShutdown(signal) ==
    /\ Running /\ server.build = "modular"
    /\ LET closeDatabase == IF "closeDatabase" \in Exports THEN "function"
                            ELSE "undefined"
       IN  /\ closeDatabase = "undefined"
           /\ server' = Exit([server EXCEPT !.signal = signal], 1)
    /\ UNCHANGED requestVars

\* The monolithic server: initDatabase awaits mysql.createConnection; its
\* catch calls process.exit(1).
Monolith_Connect ==
    /\ Running /\ server.build = "monolith" /\ server.phase = "boot"
    /\ \E ok \in BOOLEAN :
         server' = IF ok THEN [server EXCEPT !.db = @ + 1, !.tested = TRUE,
                                             !.phase = "tables"]
                   ELSE StartFailed(server)
    /\ UNCHANGED requestVars

\* Its createTables logs a failure and returns; then app.listen.
Monolith_CreateTables ==
    /\ Running /\ server.build = "monolith" /\ server.phase = "tables"
    /\ \E ok \in BOOLEAN :
         server' = [server EXCEPT !.tables = ok, !.listening = TRUE,
                                  !.phase = "serving"]
    /\ UNCHANGED requestVars

\* Its SIGINT and SIGTERM handlers: if (db) await db.end(); process.exit(0)
Monolith_Signal(signal) ==
    /\ Running /\ server.build = "monolith" /\ server.signal = "none"
    /\ server' = IF server.db # Undefined THEN [server EXCEPT !.signal = signal]
                 ELSE Exit([server EXCEPT !.signal = signal], 0)
    /\ UNCHANGED requestVars

\* db.end() settles: resolved, the handler exits with 0; rejected, nobody
\* waits for the handler's promise, and the runtime ends the process with
\* status 1 or only warns, as its version has it.
Monolith_End ==
    /\ Running /\ server.build = "monolith" /\ server.signal \in Signals
    /\ \E outcome \in {"resolved", "exit", "warn"} :
         server' = CASE outcome = "resolved" -> Exit([server EXCEPT !.closed = TRUE], 0)
                     [] outcome = "exit" -> Exit(server, 1)
                     [] outcome = "warn" -> [server EXCEPT !.signal = "handled"]
    /\ UNCHANGED requestVars

InitLifecycle ==
    /\ server \in {Booting(b) : b \in {"modular", "monolith"}}
    /\ conn = [c \in Conns |-> FreshConn]
    /\ req = [p \in Procs |-> IdleReq]
    /\ pc = [p \in Procs |-> "idle"]
    /\ loc = [p \in Procs |-> InitLoc]
    /\ res = [p \in Procs |-> NoResponse]
    /\ faults = 0
    /\ started = 0
    /\ wishlistExists = FALSE
    /\ txnPreparable = FALSE
    /\ committed = [users |-> SeedUsers, books |-> SeedBooks, reviews |-> {},
                    wishlist |-> {}]
    /\ nextId = [reviews |-> 1, books |-> NumBooks + 1, users |-> NumUsers + 1]
    /\ faultBudget = 0

\* GET /api/books/:id for a book there is and one there is not.
LifecycleRequests ==
    {Request("getBookById", "none", 0, id) : id \in {1, NumBooks + 1}}

\* A request reaches its handler once the server listens.
StartLifecycle(p) ==
    /\ Running /\ server.listening
    /\ Start(p, LifecycleRequests, MaxLifecycleRequests)

NextLifecycle ==
    \/ StartServer
    \/ InitDatabase_Test
    \/ InitDatabase_CreateTables
    \/ InitDatabase_DemoData
    \/ \E signal \in Signals : GracefulShutdown(signal)
    \/ Monolith_Connect
    \/ Monolith_CreateTables
    \/ \E signal \in Signals : Monolith_Signal(signal)
    \/ Monolith_End
    \/ \E p \in Procs :
          \/ StartLifecycle(p)
          \/ Running /\ GetBookById(p)

SpecLifecycle == InitLifecycle /\ [][NextLifecycle]_vars

\* C29: the modular server listens, and a request is under way, only when
\* the pool has been created, the test statement has passed and the tables
\* have been created; when initDatabase has failed the process has exited
\* with status 1 and does not listen; getDB throws 'Database not initialized'
\* exactly while no pool has been created; and once the server listens the
\* pool handle stays the one it is.
C29_PoolBeforeRequests ==
    /\ [](server.build = "modular"
          => /\ (server.listening \/ \E p \in Procs : pc[p] # "idle")
                => /\ server.db # Undefined /\ server.tested /\ server.tables
                   /\ GetDB(server.db).threw = ""
             /\ server.initFailed
                => /\ server.status = "exited" /\ server.code = 1
                   /\ ~server.listening
             /\ GetDB(server.db).threw = "Database not initialized"
                <=> server.phase = "boot")
    /\ [][(server.build = "modular" /\ server.listening)
          => server'.db = server.db /\ server'.listening]_vars

\* The modular server is listening and has answered a request from the pool.
C29_Witness ==
    /\ server.build = "modular" /\ server.listening
    /\ \E p \in Procs : Answered(p) /\ res[p].status = 200

\* C30: a process that has exited after SIGINT or SIGTERM has exited with
\* status 0, and the pool, if one was created, was closed before.
C30_GracefulShutdown ==
    (server.signal # "none" /\ server.status = "exited")
    => /\ server.code = 0
       /\ server.db # Undefined => server.closed

=============================================================================
